---------------------------- MODULE Spec2Model ----------------------------
(***************************************************************************)
(* The Express handlers of server/routes/apify.ts: validateApiKey,         *)
(* listActors, getActorSchema and executeActor, each run against a         *)
(* nondeterministic upstream (the Apify REST API).                         *)
(*                                                                         *)
(* One request is handled per behaviour.  An upstream fetch either throws  *)
(* (network exception) or returns a response with a status and a body      *)
(* whose JSON parse may itself throw.                                      *)
(*                                                                         *)
(* An optional value is a sequence of length <= 1: <<>> stands for         *)
(* undefined / null / absent, <<v>> for the value v.                       *)
(***************************************************************************)
EXTENDS Integers, Sequences, FiniteSets, TLC

VARIABLES
    handler,                  \* which RequestHandler serves the request
    pc,                       \* the handler's position (between awaits)
    request,                  \* req: headers, params, body
    requests,                 \* upstream requests issued so far, in order
    last,                     \* outcome of the latest upstream fetch (optional)
    responses,                \* responses sent through res, in order
    escaped,                  \* an exception left the handler uncaught
    \* listActors
    myActorsResponse,         \* optional: the owned listing's response
    accessibleActorsResponse, \* optional: the accessible listing's response
    allActors,                \* the merged list under construction
    popularIdx,               \* index of the curated id the for-loop is at
    lookups,                  \* history: the curated lookups issued and what
                              \* the upstream answered (optional actor), in order
    \* getActorSchema
    actorData,                \* optional: the parsed actor detail (actorData.data)
    schema,                   \* optional: the schema found so far
    probes,                   \* history: the cascade probes run, in order, each
                              \* with whether it failed and the schema after it
    \* executeActor
    run,                      \* optional: the run the submit returned
    finalRun,                 \* optional: the run last observed
    results,                  \* the dataset items fetched
    elapsed,                  \* Date.now() - startTime, in ms
    \* executeActor, several invocations at once
    callPc,                   \* each invocation's position
    locals,                   \* the frames holding run, finalRun, results and
                              \* the time since startTime
    created,                  \* upstream: the invocation each run was created
                              \* for, in creation order
    callRequests,             \* each invocation's upstream requests, in order
    callResponses,            \* each invocation's response (optional)
    \* listPublicActors
    actorPromises,            \* per curated id: the outcome of its lookup
                              \* (optional: absent while the lookup is pending)
    overtaken,                \* history: a lookup settled while the lookup
                              \* of an earlier curated id was still pending
    \* the Index page
    appState,                 \* the view shown: 'actors' or 'execution'
    selectedActor,            \* optional: the id of the actor selected
    actorSchema,              \* optional: the schema held
    isExecuting,              \* an execution is under way
    executionResult,          \* optional: the run held for display
    schemaFetches,            \* per actor: its schema requests in flight
    executeFetch              \* optional: the actor of the execute request
                              \* in flight

commonVars == <<handler, pc, request, requests, last, responses, escaped>>
listVars == <<myActorsResponse, accessibleActorsResponse, allActors, popularIdx, lookups>>
schemaVars == <<actorData, schema, probes>>
execVars == <<run, finalRun, results, elapsed>>
callVars == <<callPc, locals, created, callRequests, callResponses>>
publicVars == <<actorPromises, overtaken>>
uiVars == <<appState, selectedActor, actorSchema, isExecuting, executionResult,
           schemaFetches, executeFetch>>
vars == <<commonVars, listVars, schemaVars, execVars, callVars, publicVars, uiVars>>

\* what each handler leaves alone
nonListVars == <<schemaVars, execVars, callVars, publicVars, uiVars>>
nonSchemaVars == <<listVars, execVars, callVars, publicVars, uiVars>>

\* no interleaved invocations are under way
NoCalls ==
    /\ callPc = <<>>
    /\ locals = <<>>
    /\ created = <<>>
    /\ callRequests = <<>>
    /\ callResponses = <<>>

\* listPublicActors is not being served
NoPublic ==
    /\ actorPromises = <<>>
    /\ overtaken = FALSE

\* no page is open
NoPage ==
    /\ appState = "none"
    /\ selectedActor = <<>>
    /\ actorSchema = <<>>
    /\ isExecuting = FALSE
    /\ executionResult = <<>>
    /\ schemaFetches = <<>>
    /\ executeFetch = <<>>

----------------------------------------------------------------------------
(* Bounds of the model *)

\* longest owned / accessible listing the upstream returns
MaxItems == 2

\* longest version list of an actor detail
MaxVersions == 2

\* most keys of an example payload
MaxKeys == 2

\* most items of a run's dataset
MaxResults == 2

----------------------------------------------------------------------------
(* Optional values and small helpers *)

None == <<>>
Some(x) == <<x>>

Range(s) == {s[i] : i \in 1..Len(s)}

SeqsUpTo(S, n) == UNION {[1..k -> S] : k \in 0..n}

\* index of the first occurrence of x in s, 0 when there is none
RECURSIVE IndexFrom(_, _, _)
IndexFrom(s, x, i) ==
    IF i > Len(s) THEN 0
    ELSE IF s[i] = x THEN i
    ELSE IndexFrom(s, x, i + 1)

\* String.prototype.replace(tok, ""): the first occurrence of tok is removed
RemoveFirst(s, tok) ==
    LET i == IndexFrom(s, tok, 1)
    IN  IF i = 0 THEN s
        ELSE SubSeq(s, 1, i - 1) \o SubSeq(s, i + 1, Len(s))

----------------------------------------------------------------------------
(* Requests and the credential *)

\* A header value is a sequence of tokens; "Bearer " is the scheme prefix
\* and "k1" a key text.  The header itself is optional.
BearerPrefix == "Bearer "

Headers ==
    { None,
      Some(<<>>),
      Some(<<BearerPrefix>>),
      Some(<<BearerPrefix, "k1">>) }

\* req.headers.authorization?.replace("Bearer ", "")
ApiKeyOf(authorization) ==
    IF authorization = None THEN None
    ELSE Some(RemoveFirst(authorization[1], BearerPrefix))

\* mutant of MissingKey: only an undefined key is rejected, "" passes
MissingKey_OnlyUndefined(apiKey) == apiKey = None

\* !apiKey : undefined and the empty string are falsy
MissingKey(apiKey) == apiKey = None \/ apiKey[1] = <<>>

----------------------------------------------------------------------------
(* The upstream *)

\* response.ok : status in the range 200-299
Ok(r) == r.status >= 200 /\ r.status <= 299

Thrown == [kind |-> "throw", status |-> 0, body |-> None]
Resp(status, body) == [kind |-> "resp", status |-> status, body |-> body]

\* statuses a failing upstream answers with
FailStatuses == {401, 500}

\* outcomes of a fetch whose parsed body ranges over Bodies:
\* rejection, a non-success status, success with an unparsable body,
\* success with a body
Outcomes(Bodies) ==
    {Thrown}
    \cup {Resp(s, None) : s \in FailStatuses}
    \cup {Resp(200, None)}
    \cup {Resp(200, Some(b)) : b \in Bodies}

Get(url) == [method |-> "GET", url |-> url]
Post(url) == [method |-> "POST", url |-> url]

----------------------------------------------------------------------------
(* Responses and exceptions *)

\* res.status(..).json(r)
Send(r) == responses' = Append(responses, r) /\ UNCHANGED escaped

\* a step that sends nothing
Silent == UNCHANGED <<responses, escaped>>

\* mutant of InsideTry: the awaits of executeActor are outside its try block
InsideTry_NotExecute(h) == h # "executeActor"

\* every await of a handler sits inside the handler's try block
\* (lines 27, 66, 233 and 609)
InsideTry(h) == TRUE

\* An exception raised at an await of handler h: the catch block answers
\* with r; outside a try block the exception leaves the handler.
Raise(h, r) ==
    IF InsideTry(h) THEN Send(r)
    ELSE escaped' = TRUE /\ UNCHANGED responses

----------------------------------------------------------------------------
(* listActors *)

\* the curated ids of the for-loop
popularActors ==
    << "nwua9Gu5YrADL7ZDj", "apify/web-scraper", "apify/google-search-results-scraper" >>

\* ids the listings draw from: two plain ids and the first curated id
ListIds == {"a1", "a2", popularActors[1]}

\* An actor as a listing returns it.  username records which upstream
\* answer the record came from, so that copies of one id stay apart.
Actor(id, from) == [id |-> id, username |-> from]

OwnedBodies == [items : SeqsUpTo({Actor(i, "owned") : i \in ListIds}, MaxItems)]
AccessibleBodies == [items : SeqsUpTo({Actor(i, "accessible") : i \in ListIds}, MaxItems)]

\* what GET /acts/<id> may answer for a curated id: the actor under the
\* requested id, or under another id (the API resolves names to ids)
CuratedBodies(actorId) == [data : {Actor(i, "curated") : i \in {actorId, "a1"}}]

MyActorsUrl == <<"acts?my=true&limit=100">>
AccessibleUrl == <<"acts?limit=100">>
ActorUrl(actorId) == <<"acts", actorId>>

ListError(status, msg) ==
    [status |-> status, body |-> [actors |-> <<>>, error |-> Some(msg)]]

ListSuccess(actors) ==
    [status |-> 200, body |-> [actors |-> actors, error |-> None]]

IdsOf(actors) == {actors[i].id : i \in 1..Len(actors)}

\* mutant of AdditionalActors: the accessible items are appended unfiltered
AdditionalActors_NoFilter(items, existing) == items

\* accessibleData.data.items.filter(actor => !existingIds.has(actor.id))
AdditionalActors(items, existing) ==
    SelectSeq(items, LAMBDA actor : actor.id \notin IdsOf(existing))

\* mutant of BothFailedStatus: the accessible response's status is used
BothFailedStatus_Accessible(my, acc) == acc.status

\* res.status(myActorsResponse.status)
BothFailedStatus(my, acc) == my.status

\* mutant of CuratedCatches: the inner try has no catch
CuratedCatches_None(out) == FALSE

\* the try/catch around one curated lookup catches whatever the lookup throws
CuratedCatches(out) == TRUE

\* One curated lookup inside its try block: thrown when the fetch rejects or
\* the body of a success response does not parse; otherwise the actors to push.
CuratedLookup(out) ==
    IF out.kind = "throw" THEN [thrown |-> TRUE, push |-> <<>>]
    ELSE IF ~Ok(out) THEN [thrown |-> FALSE, push |-> <<>>]
    ELSE IF out.body = None THEN [thrown |-> TRUE, push |-> <<>>]
    ELSE [thrown |-> FALSE, push |-> <<out.body[1].data>>]

\* what the upstream answered to the lookup of actorId: the actor of a
\* success response with a parsable body, nothing otherwise
Answer(actorId, out) ==
    [actorId |-> actorId,
     actor |-> IF out.kind = "resp" /\ Ok(out) /\ out.body # None
               THEN Some(out.body[1].data) ELSE None]

InitList ==
    /\ handler = "listActors"
    /\ pc = "start"
    /\ request \in [authorization : Headers]
    /\ requests = <<>>
    /\ last = None
    /\ responses = <<>>
    /\ escaped = FALSE
    /\ myActorsResponse = None
    /\ accessibleActorsResponse = None
    /\ allActors = <<>>
    /\ popularIdx = 1
    /\ lookups = <<>>
    /\ actorData = None
    /\ schema = None
    /\ probes = <<>>
    /\ run = None
    /\ finalRun = None
    /\ results = <<>>
    /\ elapsed = 0
    /\ NoCalls
    /\ NoPublic
    /\ NoPage

\* lines 56-79: the credential check, then both listings are issued at once
ListActorsStart ==
    /\ handler = "listActors" /\ pc = "start"
    /\ IF MissingKey(ApiKeyOf(request.authorization))
       THEN /\ Send(ListError(401, "API key is required"))
            /\ pc' = "done"
            /\ UNCHANGED requests
       ELSE /\ requests' = requests \o <<Get(MyActorsUrl), Get(AccessibleUrl)>>
            /\ pc' = "awaitAll"
            /\ Silent
    /\ UNCHANGED <<handler, request, last, listVars, nonListVars>>

\* the catch block of listActors, lines 139-146
ListCatch == ListError(500, "Failed to fetch actors from Apify")

\* Promise.all: the owned listing settles
OwnedSettles ==
    /\ handler = "listActors" /\ pc = "awaitAll"
    /\ myActorsResponse = None
    /\ \E out \in Outcomes(OwnedBodies) :
        /\ last' = Some(out)
        /\ IF out.kind = "throw"
           THEN /\ Raise("listActors", ListCatch)
                /\ pc' = "done"
                /\ UNCHANGED myActorsResponse
           ELSE /\ myActorsResponse' = Some(out)
                /\ pc' = IF accessibleActorsResponse # None THEN "merge" ELSE "awaitAll"
                /\ Silent
    /\ UNCHANGED <<handler, request, requests, accessibleActorsResponse, allActors, popularIdx, lookups, nonListVars>>

\* Promise.all: the accessible listing settles
AccessibleSettles ==
    /\ handler = "listActors" /\ pc = "awaitAll"
    /\ accessibleActorsResponse = None
    /\ \E out \in Outcomes(AccessibleBodies) :
        /\ last' = Some(out)
        /\ IF out.kind = "throw"
           THEN /\ Raise("listActors", ListCatch)
                /\ pc' = "done"
                /\ UNCHANGED accessibleActorsResponse
           ELSE /\ accessibleActorsResponse' = Some(out)
                /\ pc' = IF myActorsResponse # None THEN "merge" ELSE "awaitAll"
                /\ Silent
    /\ UNCHANGED <<handler, request, requests, myActorsResponse, allActors, popularIdx, lookups, nonListVars>>

\* lines 89-106 as a function of the two responses: the merged list, or
\* thrown when a success response's body does not parse
MergeListings(my, acc) ==
    LET myThrows == Ok(my) /\ my.body = None
        owned == IF Ok(my) /\ ~myThrows THEN my.body[1].items ELSE <<>>
        accThrows == Ok(acc) /\ acc.body = None
    IN  IF myThrows \/ accThrows
        THEN [thrown |-> TRUE, actors |-> <<>>]
        ELSE [thrown |-> FALSE,
              actors |-> IF Ok(acc)
                         THEN owned \o AdditionalActors(acc.body[1].items, owned)
                         ELSE owned]

\* lines 81-106: both responses are in
ListActorsMerge ==
    /\ handler = "listActors" /\ pc = "merge"
    /\ LET my == myActorsResponse[1]
           acc == accessibleActorsResponse[1]
           m == MergeListings(my, acc)
       IN  IF ~Ok(my) /\ ~Ok(acc)
           THEN /\ Send(
                       ListError(BothFailedStatus(my, acc), "Failed to fetch actors"))
                /\ pc' = "done"
                /\ UNCHANGED allActors
           ELSE IF m.thrown
           THEN /\ Raise("listActors", ListCatch)
                /\ pc' = "done"
                /\ UNCHANGED allActors
           ELSE /\ allActors' = m.actors
                /\ pc' = "popular"
                /\ Silent
    /\ UNCHANGED <<handler, request, requests, last, myActorsResponse, accessibleActorsResponse, popularIdx, lookups, nonListVars>>

\* mutant of AlreadyListed: every curated id is looked up
AlreadyListed_Never(actorId, actors) == FALSE

\* lines 116-117: existingIds.has(actorId), existingIds being rebuilt from
\* allActors at each iteration
AlreadyListed(actorId, actors) == actorId \in IdsOf(actors)

\* lines 115-132: one iteration of the for-loop over popularActors
PopularActorStep ==
    /\ handler = "listActors" /\ pc = "popular"
    /\ popularIdx <= Len(popularActors)
    /\ LET actorId == popularActors[popularIdx]
       IN  IF AlreadyListed(actorId, allActors)
           THEN /\ popularIdx' = popularIdx + 1
                /\ Silent
                /\ UNCHANGED <<requests, last, pc, allActors, lookups>>
           ELSE \E out \in Outcomes(CuratedBodies(actorId)) :
                LET r == CuratedLookup(out)
                IN  /\ requests' = Append(requests, Get(ActorUrl(actorId)))
                    /\ last' = Some(out)
                    /\ lookups' = Append(lookups, Answer(actorId, out))
                    /\ IF r.thrown /\ ~CuratedCatches(out)
                       THEN /\ Raise("listActors", ListCatch)
                            /\ pc' = "done"
                            /\ UNCHANGED <<allActors, popularIdx>>
                       ELSE /\ allActors' = allActors \o r.push
                            /\ popularIdx' = popularIdx + 1
                            /\ Silent
                            /\ UNCHANGED pc
    /\ UNCHANGED <<handler, request, myActorsResponse, accessibleActorsResponse,
                   nonListVars>>

\* lines 134-138: the loop is over, the merged list is sent
ListActorsRespond ==
    /\ handler = "listActors" /\ pc = "popular"
    /\ popularIdx > Len(popularActors)
    /\ Send(ListSuccess(allActors))
    /\ pc' = "done"
    /\ UNCHANGED <<handler, request, requests, last, listVars, nonListVars>>

NextList ==
    \/ ListActorsStart
    \/ OwnedSettles
    \/ AccessibleSettles
    \/ ListActorsMerge
    \/ PopularActorStep
    \/ ListActorsRespond

SpecList == InitList /\ [][NextList]_vars

----------------------------------------------------------------------------
(* getActorSchema: the upstream data *)

\* the actor id with a predefined schema
OverrideActorId == "nwua9Gu5YrADL7ZDj"

\* req.params.actorId : empty, the id with an override, another id
SchemaActorIds == {"", OverrideActorId, "a1"}

\* A text is a sequence of string pieces (a template string's parts).
\* An input schema: properties is the ordered list of its properties, each
\* carrying its key; description and required are optional.
InputSchema(title, description, properties, required) ==
    [title |-> title, type |-> "object", description |-> description,
     properties |-> properties, required |-> required]

\* schemas a version or a build may carry upstream
UpstreamSchemas ==
    { InputSchema("S1", Some(<<"first">>),
                  <<[key |-> "startUrls", type |-> "array"]>>, Some(<<"startUrls">>)),
      InputSchema("S2", None,
                  <<[key |-> "search", type |-> "string"],
                    [key |-> "maxItems", type |-> "integer"]>>, None) }

\* ApifyActorVersion, and a build as the builds endpoints return it
Versions == [inputSchema : {None} \cup {Some(s) : s \in UpstreamSchemas}]

\* a JSON value as JSON.parse returns it; len is the length of a string
Json(t, len) == [t |-> t, len |-> len]

\* the members example payloads are made of: one per kind of value,
\* strings on both sides of the length limit, and keys that are array
\* indices
ExampleEntries ==
    { [key |-> "query",   value |-> Json("string", 50)],
      [key |-> "text",    value |-> Json("string", 51)],
      [key |-> "limit",   value |-> Json("number", 0)],
      [key |-> "flag",    value |-> Json("boolean", 0)],
      [key |-> "urls",    value |-> Json("array", 0)],
      [key |-> "options", value |-> Json("object", 0)],
      [key |-> "proxy",   value |-> Json("null", 0)],
      [key |-> "7",       value |-> Json("string", 0)],
      [key |-> "10",      value |-> Json("number", 0)] }

DistinctKeys(entries) ==
    \A i, j \in 1..Len(entries) : entries[i].key = entries[j].key => i = j

\* The text of a JSON object: its members in the order they are written.
\* A key may be written twice, but only next to itself (longer texts with
\* a repeated key add nothing the model reads).
ExampleObjects(n) ==
    {es \in SeqsUpTo(ExampleEntries, n) :
        DistinctKeys(es) \/ (Len(es) = 2 /\ es[1].key = es[2].key)}

\* exampleRunInput.body, a string: empty, not JSON, or the JSON text of
\* null, of a number or of an object
Body(kind, top, entries) == [kind |-> kind, top |-> top, entries |-> entries]

ExampleBodies(n) ==
    { Body("empty", "none", <<>>),
      Body("garbage", "none", <<>>),
      Body("json", "null", <<>>),
      Body("json", "number", <<>>) }
    \cup {Body("json", "object", es) : es \in ExampleObjects(n)}

PricingInfo(trialMinutes) == [pricePerUnitUsd |-> 49, trialMinutes |-> trialMinutes]

\* ApifyActorDetailResponse.data
ActorDetail(meta, versions, latest, example, pricing, categories) ==
    [title |-> meta.title, description |-> meta.description,
     versions |-> versions, taggedLatest |-> latest,
     exampleRunInput |-> example, pricingInfos |-> pricing,
     categories |-> categories]

ActorMetas ==
    { [title |-> None, description |-> None],
      [title |-> Some("Web Scraper"), description |-> Some(<<"Crawls pages">>)] }

TaggedLatest == {None, Some([buildId |-> "b1"])}

PricingInfos == {None, Some(<<>>), Some(<<PricingInfo(0)>>), Some(<<PricingInfo(90)>>)}

Categories == {None, Some(<<"SEO">>), Some(<<"SEO", "JOBS">>)}

\* The details the upstream may return: every combination of version list,
\* tagged build, pricing, categories and metadata with a few example inputs,
\* and every example payload for an actor without versions.
DetailBodies ==
    { ActorDetail(m, vs, tb, ex, pr, cs) :
        m \in ActorMetas, vs \in SeqsUpTo(Versions, MaxVersions), tb \in TaggedLatest,
        ex \in {None, Some([body |-> Body("garbage", "none", <<>>)]),
                Some([body |-> Body("json", "null", <<>>)])},
        pr \in PricingInfos, cs \in Categories }
    \cup
    { ActorDetail(m, <<>>, None, Some([body |-> b]), None, cs) :
        m \in ActorMetas, b \in ExampleBodies(MaxKeys), cs \in {None, Some(<<"SEO", "JOBS">>)} }

\* a failing detail response's body is read as text: readable or not
DetailOutcomes ==
    Outcomes([data : DetailBodies])
    \cup {Resp(s, Some([text |-> "error"])) : s \in FailStatuses}

VersionsOutcomes == Outcomes([items : SeqsUpTo(Versions, 1)])
BuildOutcomes == Outcomes([data : Versions])
BuildsOutcomes == Outcomes([items : SeqsUpTo(Versions, 1)])

VersionsUrl(actorId) == <<"acts", actorId, "versions?limit=1&desc=true">>
BuildUrl(actorId, buildId) == <<"acts", actorId, "builds", buildId>>
BuildsUrl(actorId) == <<"acts", actorId, "builds?limit=1&desc=true">>

----------------------------------------------------------------------------
(* getActorSchema: the cascade *)

SchemaError(status, msg) ==
    [status |-> status, body |-> [schema |-> None, error |-> Some(msg)]]

SchemaSuccess(s) ==
    [status |-> 200, body |-> [schema |-> s, error |-> None]]

\* the catch block of getActorSchema, lines 577-584
SchemaCatch == SchemaError(500, "Failed to fetch actor schema from Apify")

\* mutant of NeedsProbe: the probes do not test whether a schema was found
NeedsProbe_Always(s) == TRUE

\* mutant of NeedsProbe: no probe runs after the embedded one
NeedsProbe_Never(s) == FALSE

\* !schema
NeedsProbe(s) == s = None

\* mutant of EmbeddedSchema: the last entry of the version list is read
EmbeddedSchema_LastVersion(data) ==
    IF Len(data.versions) > 0
    THEN data.versions[Len(data.versions)].inputSchema
    ELSE None

\* lines 262-270: the schema of versions[0], when there is one
EmbeddedSchema(data) ==
    IF Len(data.versions) > 0 THEN data.versions[1].inputSchema ELSE None

\* The body of a probe's try block, run with the schema s: thrown tells
\* whether it raised, schema is the value of the variable schema when the
\* block is left.
Left(thrown, s) == [thrown |-> thrown, schema |-> s]

\* lines 275-291 and 324-342: a "list, limit 1" query
ItemsProbe(s, out) ==
    IF out.kind = "throw" THEN Left(TRUE, s)
    ELSE IF ~Ok(out) THEN Left(FALSE, s)
    ELSE IF out.body = None THEN Left(TRUE, s)
    ELSE IF Len(out.body[1].items) > 0
         THEN Left(FALSE, out.body[1].items[1].inputSchema)
         ELSE Left(FALSE, s)

\* lines 301-315: the tagged build's detail
BuildProbe(s, out) ==
    IF out.kind = "throw" THEN Left(TRUE, s)
    ELSE IF ~Ok(out) THEN Left(FALSE, s)
    ELSE IF out.body = None THEN Left(TRUE, s)
    ELSE Left(FALSE, out.body[1].data.inputSchema)

\* mutant of ProbeCatches: the probes' try blocks have no catch
ProbeCatches_None(probe) == FALSE

\* every probe's try block has a catch that only logs
ProbeCatches(probe) == TRUE

\* position of the member of obj with this key, 0 when there is none
RECURSIVE KeyIndex(_, _, _)
KeyIndex(obj, key, i) ==
    IF i > Len(obj) THEN 0
    ELSE IF obj[i].key = key THEN i
    ELSE KeyIndex(obj, key, i + 1)

\* mutant of SetMember: a key written twice is kept twice
SetMember_Append(obj, e) == Append(obj, e)

\* obj[e.key] = e: a new key is added after the others, an existing key
\* keeps its place and takes the new value
SetMember(obj, e) ==
    LET i == KeyIndex(obj, e.key, 1)
    IN  IF i = 0 THEN Append(obj, e) ELSE [obj EXCEPT ![i] = e]

\* the members es set one after the other on obj
RECURSIVE SetMembers(_, _)
SetMembers(obj, es) ==
    IF es = <<>> THEN obj
    ELSE SetMembers(SetMember(obj, es[1]), Tail(es))

\* the keys that are array indices, and the integer each one is
IsIndexKey(key) == key \in {"7", "10"}
IndexValue(key) == CASE key = "7" -> 7 [] key = "10" -> 10 [] OTHER -> 0

\* members with index keys, in ascending order of the index
RECURSIVE AscendingIndexKeys(_)
AscendingIndexKeys(ms) ==
    IF ms = <<>> THEN <<>>
    ELSE LET i == CHOOSE i \in 1..Len(ms) :
                     \A j \in 1..Len(ms) :
                        IndexValue(ms[i].key) <= IndexValue(ms[j].key)
         IN  <<ms[i]>> \o AscendingIndexKeys(SubSeq(ms, 1, i - 1) \o SubSeq(ms, i + 1, Len(ms)))

\* The order in which an object enumerates its own members: the index keys
\* in ascending order, then the other keys in the order they were added.
OwnEntries(obj) ==
    LET IsIndex(m) == IsIndexKey(m.key)
        IsName(m) == ~IsIndexKey(m.key)
    IN  AscendingIndexKeys(SelectSeq(obj, IsIndex)) \o SelectSeq(obj, IsName)

\* JSON.parse(body): throws on a text that is not JSON; of a key written
\* twice the object keeps the last value
JsonParse(body) ==
    [thrown |-> body.kind # "json", top |-> body.top,
     entries |-> SetMembers(<<>>, body.entries)]

\* Object.entries(parsed): throws on null, is empty for a number
ObjectEntries(parsed) ==
    [thrown |-> parsed.top = "null",
     entries |-> IF parsed.top = "object" THEN OwnEntries(parsed.entries) ELSE <<>>]

\* key.charAt(0).toUpperCase() + key.slice(1), on the keys of ExampleEntries
Capitalize(key) ==
    CASE key = "query" -> "Query"
      [] key = "text" -> "Text"
      [] key = "limit" -> "Limit"
      [] key = "flag" -> "Flag"
      [] key = "urls" -> "Urls"
      [] key = "options" -> "Options"
      [] key = "proxy" -> "Proxy"
      [] OTHER -> key

\* the length above which a string value is given the textarea format
TextareaLimit == 50

\* mutant of InferType: typeof value === 'object' is tested before
\* Array.isArray(value), so an array is typed object
InferType_ObjectFirst(value) ==
    IF value.t = "string" THEN "string"
    ELSE IF value.t = "number" THEN "number"
    ELSE IF value.t = "boolean" THEN "boolean"
    ELSE IF value.t \in {"object", "null", "array"} THEN "object"
    ELSE "string"

\* lines 373-388: typeof null is 'object', so the else branch is not reached
\* by a JSON value
InferType(value) ==
    IF value.t = "string" THEN "string"
    ELSE IF value.t = "number" THEN "number"
    ELSE IF value.t = "boolean" THEN "boolean"
    ELSE IF value.t = "array" THEN "array"
    ELSE IF value.t \in {"object", "null"} THEN "object"
    ELSE "string"

\* mutant of InferFormat: value.length >= 50
InferFormat_AtLeast(value) ==
    IF value.t = "string" /\ value.len >= TextareaLimit THEN Some("textarea") ELSE None

\* lines 375-377
InferFormat(value) ==
    IF value.t = "string" /\ value.len > TextareaLimit THEN Some("textarea") ELSE None

\* lines 367-390: the property generated for one key of the example
ExampleProperty(entry) ==
    [key |-> entry.key,
     title |-> Capitalize(entry.key),
     description |-> <<"Input parameter: ", entry.key>>,
     type |-> InferType(entry.value),
     format |-> InferFormat(entry.value)]

\* title || "Actor Input"
TitleOr(data, default) == IF data.title = None THEN default ELSE data.title[1]

\* description || "Input parameters for this actor"
DescriptionOf(data) ==
    IF data.description = None
    THEN Some(<<"Input parameters for this actor">>)
    ELSE data.description

\* mutant of ExampleProbe: the schema is assigned before the body is parsed
ExampleProbe_AssignsFirst(s, data) ==
    LET body == data.exampleRunInput[1].body
        parsed == JsonParse(body)
        es == ObjectEntries(parsed)
        base == InputSchema(TitleOr(data, "Actor Input"), DescriptionOf(data), <<>>, None)
    IN  IF body.kind = "empty" THEN Left(FALSE, s)
        ELSE IF parsed.thrown \/ es.thrown THEN Left(TRUE, Some(base))
        ELSE Left(FALSE,
                  Some([base EXCEPT !.properties =
                          OwnEntries(SetMembers(<<>>,
                             [i \in 1..Len(es.entries) |-> ExampleProperty(es.entries[i])]))]))

\* lines 350-397: the example probe's try block.  The schema is assigned
\* before the properties are generated, so an exception raised by
\* Object.entries leaves the schema assigned, without properties.
ExampleProbe(s, data) ==
    LET body == data.exampleRunInput[1].body
        parsed == JsonParse(body)
        es == ObjectEntries(parsed)
        base == InputSchema(TitleOr(data, "Actor Input"), DescriptionOf(data), <<>>, None)
    IN  IF body.kind = "empty" THEN Left(FALSE, s)
        ELSE IF parsed.thrown THEN Left(TRUE, s)
        ELSE IF es.thrown THEN Left(TRUE, Some(base))
        ELSE Left(FALSE,
                  Some([base EXCEPT !.properties =
                          OwnEntries(SetMembers(<<>>,
                             [i \in 1..Len(es.entries) |-> ExampleProperty(es.entries[i])]))]))

\* lines 403-516: the predefined schema of the Google Maps Scraper
OverrideSchema ==
    InputSchema("Google Maps Scraper",
        Some(<<"Extract business listings from Google Maps">>),
        << [key |-> "searchQuery", type |-> "string"],
           [key |-> "locationQuery", type |-> "string"],
           [key |-> "maxCrawledPlacesPerSearch", type |-> "integer"],
           [key |-> "language", type |-> "string"],
           [key |-> "categoryFilterWords", type |-> "array"],
           [key |-> "searchMatching", type |-> "string"],
           [key |-> "placeMinimumStars", type |-> "string"],
           [key |-> "website", type |-> "string"],
           [key |-> "skipClosedPlaces", type |-> "boolean"],
           [key |-> "scrapePlaceDetailPage", type |-> "boolean"],
           [key |-> "maxReviews", type |-> "integer"],
           [key |-> "maxImages", type |-> "integer"],
           [key |-> "countryCode", type |-> "string"],
           [key |-> "city", type |-> "string"],
           [key |-> "state", type |-> "string"],
           [key |-> "postalCode", type |-> "string"] >>,
        Some(<<>>))

\* line 524
IsPaidActor(data) == data.pricingInfos # None /\ Len(data.pricingInfos[1]) > 0

\* line 525
HasTrialMinutes(data) == IsPaidActor(data) /\ data.pricingInfos[1][1].trialMinutes > 0

\* Math.round(trialMinutes / 60), for trialMinutes >= 0
TrialHours(data) == (data.pricingInfos[1][1].trialMinutes + 30) \div 60

\* mutant of IsJobsActor: any declared category counts
IsJobsActor_AnyCategory(data) == data.categories # None

\* categories?.includes('JOBS')
IsJobsActor(data) ==
    data.categories # None /\ "JOBS" \in Range(data.categories[1])

\* mutant of FallbackRequired: the conventional jobs field is required
\* whether or not it was added
FallbackRequired_Keywords == Some(<<"keywords">>)

\* required: [] (line 555)
FallbackRequired == Some(<<>>)

\* lines 528-565: the schema built from the actor's metadata
FallbackSchema(data) ==
    LET jobs == IF IsJobsActor(data)
                THEN << [key |-> "keywords", title |-> "Keywords", type |-> "array",
                         description |-> <<"Job search keywords">>],
                        [key |-> "location", title |-> "Location", type |-> "string",
                         description |-> <<"Job location or region">>] >>
                ELSE <<>>
        trial == IF HasTrialMinutes(data)
                 THEN <<" with ", ToString(TrialHours(data)), " hours of trial time">>
                 ELSE <<>>
        paid == IF IsPaidActor(data)
                THEN <<"This is a paid actor">> \o trial \o <<".">>
                ELSE <<>>
        input == << [key |-> "input", title |-> "Input Data", type |-> "string",
                     format |-> Some("textarea"),
                     description |-> <<"Input data for ", TitleOr(data, "this actor"), ". ">>
                                     \o paid] >>
        free == IF HasTrialMinutes(data)
                THEN <<" with ", ToString(TrialHours(data)), " hours free trial">>
                ELSE <<>>
        pricing == IF IsPaidActor(data)
                   THEN << [key |-> "_pricing_info", title |-> "Pricing Information",
                            type |-> "string", readOnly |-> TRUE,
                            description |->
                               <<"This actor costs $",
                                 ToString(data.pricingInfos[1][1].pricePerUnitUsd),
                                 "/month">> \o free] >>
                   ELSE <<>>
    IN  InputSchema(TitleOr(data, "Actor Input"), DescriptionOf(data),
                    jobs \o input \o pricing, FallbackRequired)

\* an entry of the history of probes
Probed(probe, failed, after) == [probe |-> probe, failed |-> failed, after |-> after]

\* lines 348-568, which run without an await: example probe, predefined
\* schema, metadata fallback.  thrown: an exception left a try block
\* uncaught; schema: the final schema; ran: the probes run.
LocalCascade(s, data, actorId) ==
    LET runExample == NeedsProbe(s) /\ data.exampleRunInput # None
        ex == IF runExample THEN ExampleProbe(s, data) ELSE Left(FALSE, s)
        s5 == ex.schema
        runOverride == NeedsProbe(s5) /\ actorId = OverrideActorId
        s6 == IF runOverride THEN Some(OverrideSchema) ELSE s5
        runFallback == NeedsProbe(s6)
        s7 == IF runFallback THEN Some(FallbackSchema(data)) ELSE s6
    IN  IF ex.thrown /\ ~ProbeCatches("example")
        THEN [thrown |-> TRUE, schema |-> s5,
              ran |-> <<Probed("example", TRUE, s5)>>]
        ELSE [thrown |-> FALSE, schema |-> s7,
              ran |-> (IF runExample THEN <<Probed("example", ex.thrown, s5)>> ELSE <<>>)
                      \o (IF runOverride THEN <<Probed("override", FALSE, s6)>> ELSE <<>>)
                      \o (IF runFallback THEN <<Probed("fallback", FALSE, s7)>> ELSE <<>>)]

\* The probe that runs next once the probe `after` is over, the schema being
\* s: a probe that awaits a fetch, or "local" for the rest of the cascade.
NextProbe(after, s, data) ==
    IF after = "embedded" /\ NeedsProbe(s) THEN "versions"
    ELSE IF after \in {"embedded", "versions"}
            /\ NeedsProbe(s) /\ data.taggedLatest # None THEN "build"
    ELSE IF after \in {"embedded", "versions", "build"} /\ NeedsProbe(s) THEN "builds"
    ELSE "local"

\* the request a probe issues
ProbeRequest(probe, actorId, data) ==
    IF probe = "versions" THEN <<Get(VersionsUrl(actorId))>>
    ELSE IF probe = "build" THEN <<Get(BuildUrl(actorId, data.taggedLatest[1].buildId))>>
    ELSE IF probe = "builds" THEN <<Get(BuildsUrl(actorId))>>
    ELSE <<>>

\* a fetch that failed: rejected, non-success status, or unparsable body
FetchFailed(out) == out.kind = "throw" \/ ~Ok(out) \/ out.body = None

InitSchema ==
    /\ handler = "getActorSchema"
    /\ pc = "start"
    /\ request \in [authorization : Headers, actorId : SchemaActorIds]
    /\ requests = <<>>
    /\ last = None
    /\ responses = <<>>
    /\ escaped = FALSE
    /\ myActorsResponse = None
    /\ accessibleActorsResponse = None
    /\ allActors = <<>>
    /\ popularIdx = 1
    /\ lookups = <<>>
    /\ actorData = None
    /\ schema = None
    /\ probes = <<>>
    /\ run = None
    /\ finalRun = None
    /\ results = <<>>
    /\ elapsed = 0
    /\ NoCalls
    /\ NoPublic
    /\ NoPage

\* lines 214-242: the credential and actor id checks, then the detail fetch
SchemaStart ==
    /\ handler = "getActorSchema" /\ pc = "start"
    /\ IF MissingKey(ApiKeyOf(request.authorization))
       THEN /\ Send(SchemaError(401, "API key is required"))
            /\ pc' = "done"
            /\ UNCHANGED requests
       ELSE IF request.actorId = ""
       THEN /\ Send(SchemaError(400, "Actor ID is required"))
            /\ pc' = "done"
            /\ UNCHANGED requests
       ELSE /\ requests' = Append(requests, Get(ActorUrl(request.actorId)))
            /\ pc' = "detail"
            /\ Silent
    /\ UNCHANGED <<handler, request, last, schemaVars, nonSchemaVars>>

\* res.status(actorResponse.status)
DetailFailedStatus(out) == out.status

\* lines 244-270: the detail fetch settles; the embedded schema is read
DetailSettles ==
    /\ handler = "getActorSchema" /\ pc = "detail"
    /\ \E out \in DetailOutcomes :
        /\ last' = Some(out)
        /\ IF out.kind = "throw" \/ out.body = None
           THEN /\ Raise("getActorSchema", SchemaCatch)
                /\ pc' = "done"
                /\ UNCHANGED <<requests, schemaVars>>
           ELSE IF ~Ok(out)
           THEN /\ Send(
                        SchemaError(DetailFailedStatus(out), "Failed to fetch actor details"))
                /\ pc' = "done"
                /\ UNCHANGED <<requests, schemaVars>>
           ELSE LET data == out.body[1].data
                    s == EmbeddedSchema(data)
                    next == NextProbe("embedded", s, data)
                IN  /\ actorData' = Some(data)
                    /\ schema' = s
                    /\ probes' = <<Probed("embedded", FALSE, s)>>
                    /\ pc' = next
                    /\ requests' = requests \o ProbeRequest(next, request.actorId, data)
                    /\ Silent
    /\ UNCHANGED <<handler, request, nonSchemaVars>>

\* A probe that awaits a fetch settles with the outcome out, its try block
\* leaving r.
ProbeSettles(probe, out, r) ==
    /\ last' = Some(out)
    /\ IF r.thrown /\ ~ProbeCatches(probe)
       THEN /\ Raise("getActorSchema", SchemaCatch)
            /\ pc' = "done"
            /\ probes' = Append(probes, Probed(probe, TRUE, r.schema))
            /\ UNCHANGED <<requests, schema, actorData>>
       ELSE LET next == NextProbe(probe, r.schema, actorData[1])
            IN  /\ schema' = r.schema
                /\ probes' = Append(probes, Probed(probe, FetchFailed(out), r.schema))
                /\ pc' = next
                /\ requests' = requests \o ProbeRequest(next, request.actorId, actorData[1])
                /\ Silent
                /\ UNCHANGED actorData
    /\ UNCHANGED <<handler, request, nonSchemaVars>>

\* lines 273-295
VersionsSettles ==
    /\ handler = "getActorSchema" /\ pc = "versions"
    /\ \E out \in VersionsOutcomes : ProbeSettles("versions", out, ItemsProbe(schema, out))

\* lines 298-319
BuildSettles ==
    /\ handler = "getActorSchema" /\ pc = "build"
    /\ \E out \in BuildOutcomes : ProbeSettles("build", out, BuildProbe(schema, out))

\* lines 322-346
BuildsSettles ==
    /\ handler = "getActorSchema" /\ pc = "builds"
    /\ \E out \in BuildsOutcomes : ProbeSettles("builds", out, ItemsProbe(schema, out))

\* lines 348-576: the rest of the cascade, and the response
SchemaFinish ==
    /\ handler = "getActorSchema" /\ pc = "local"
    /\ LET c == LocalCascade(schema, actorData[1], request.actorId)
       IN  /\ schema' = c.schema
           /\ probes' = probes \o c.ran
           /\ IF c.thrown
              THEN Raise("getActorSchema", SchemaCatch)
              ELSE Send(SchemaSuccess(c.schema))
    /\ pc' = "done"
    /\ UNCHANGED <<handler, request, requests, last, actorData, nonSchemaVars>>

NextSchema ==
    \/ SchemaStart
    \/ DetailSettles
    \/ VersionsSettles
    \/ BuildSettles
    \/ BuildsSettles
    \/ SchemaFinish

SpecSchema == InitSchema /\ [][NextSchema]_vars

----------------------------------------------------------------------------
(* validateApiKey *)

\* req.body.apiKey : undefined, empty, or a key text
BodyKeys == {None, Some(<<>>), Some(<<"k1">>)}

ValidateResult(status, valid, error) ==
    [status |-> status, body |-> [valid |-> valid, error |-> error]]

\* the catch block of validateApiKey, lines 44-51
ValidateCatch == ValidateResult(500, FALSE, Some("Failed to validate API key"))

InitValidate ==
    /\ handler = "validateApiKey"
    /\ pc = "start"
    /\ request \in [apiKey : BodyKeys]
    /\ requests = <<>>
    /\ last = None
    /\ responses = <<>>
    /\ escaped = FALSE
    /\ myActorsResponse = None
    /\ accessibleActorsResponse = None
    /\ allActors = <<>>
    /\ popularIdx = 1
    /\ lookups = <<>>
    /\ actorData = None
    /\ schema = None
    /\ probes = <<>>
    /\ run = None
    /\ finalRun = None
    /\ results = <<>>
    /\ elapsed = 0
    /\ NoCalls
    /\ NoPublic
    /\ NoPage

\* lines 17-32
ValidateStart ==
    /\ handler = "validateApiKey" /\ pc = "start"
    /\ IF MissingKey(request.apiKey)
       THEN /\ Send(ValidateResult(400, FALSE, Some("API key is required")))
            /\ pc' = "done"
            /\ UNCHANGED requests
       ELSE /\ requests' = Append(requests, Get(<<"acts">>))
            /\ pc' = "validate"
            /\ Silent
    /\ UNCHANGED <<handler, request, last, listVars, schemaVars, callVars, publicVars, uiVars, execVars>>

\* lines 34-51: the body of the response is not read
ValidateSettles ==
    /\ handler = "validateApiKey" /\ pc = "validate"
    /\ \E out \in Outcomes({}) :
        /\ last' = Some(out)
        /\ IF out.kind = "throw"
           THEN Raise("validateApiKey", ValidateCatch)
           ELSE IF Ok(out)
           THEN Send(ValidateResult(200, TRUE, None))
           ELSE Send(ValidateResult(401, FALSE, Some("Invalid API key")))
    /\ pc' = "done"
    /\ UNCHANGED <<handler, request, requests, listVars, schemaVars, callVars, publicVars, uiVars, execVars>>

NextValidate ==
    \/ ValidateStart
    \/ ValidateSettles

SpecValidate == InitValidate /\ [][NextValidate]_vars

----------------------------------------------------------------------------
(* executeActor *)

\* const maxWaitTime = 60000
maxWaitTime == 60000

\* const pollInterval = 2000
pollInterval == 2000

RunStatuses == {"READY", "RUNNING", "SUCCEEDED", "FAILED", "TIMED-OUT", "ABORTED"}

\* ApifyRun, as far as the handler reads it
Run(id, status) == [id |-> id, status |-> status]

RunBodies == [data : {Run("r1", st) : st \in RunStatuses}]

\* the parsed body of a dataset response, a JSON array: its items
DatasetBodies == [items : SeqsUpTo({"item"}, MaxResults)]

\* req.params.actorId and req.body.input
ExecActorIds == {"", "a1"}
ExecInputs == {None, Some([query |-> "q"])}

\* time a poll's fetch takes on top of the sleep, in ms
Lags == {0, pollInterval}

RunsUrl(actorId) == <<"acts", actorId, "runs">>
\* mutant of RunUrl: the poll reads the dataset endpoint
RunUrl_Dataset(actorId, runId) ==
    <<"acts", actorId, "runs", runId, "dataset", "items?clean=true&format=json">>

RunUrl(actorId, runId) == <<"acts", actorId, "runs", runId>>
DatasetUrl(actorId, runId) ==
    <<"acts", actorId, "runs", runId, "dataset", "items?clean=true&format=json">>

\* body: JSON.stringify(input || {})
PostRun(actorId, input) ==
    [method |-> "POST", url |-> RunsUrl(actorId),
     body |-> IF input = None THEN <<>> ELSE input[1]]

\* run: {} as any
EmptyObject == <<>>

ExecError(status, msg) ==
    [status |-> status,
     body |-> [run |-> EmptyObject, results |-> None, error |-> Some(msg)]]

\* results: results.length > 0 ? results : undefined
\* mutant of ExecSuccess: results is sent as it is, empty or not
ExecSuccess_ResultsAsIs(r, res) ==
    [status |-> 200,
     body |-> [run |-> <<r>>, results |-> <<res>>, error |-> None]]

\* mutant of ExecSuccess: a run still RUNNING at the ceiling is answered
\* with a timeout error
ExecSuccess_TimeoutError(r, res) ==
    IF r.status = "RUNNING"
    THEN ExecError(504, "Actor run timed out")
    ELSE [status |-> 200,
          body |-> [run |-> <<r>>,
                    results |-> IF Len(res) > 0 THEN Some(res) ELSE None,
                    error |-> None]]

ExecSuccess(r, res) ==
    [status |-> 200,
     body |-> [run |-> <<r>>,
               results |-> IF Len(res) > 0 THEN Some(res) ELSE None,
               error |-> None]]

\* the catch block of executeActor, lines 688-695
ExecCatch == ExecError(500, "Failed to execute actor")

\* mutant of KeepsPolling: the loop has no ceiling
KeepsPolling_NoCeiling(r, t) == r.status = "RUNNING"

\* mutant of KeepsPolling: the loop goes on until the ceiling whatever the
\* status
KeepsPolling_UntilCeiling(r, t) == t < maxWaitTime

\* the condition of the while loop, lines 639-642
KeepsPolling(r, t) == r.status = "RUNNING" /\ t < maxWaitTime

\* mutant of FetchesResults: the dataset is fetched for every terminal status
FetchesResults_AnyTerminal(r) ==
    r.status \in {"SUCCEEDED", "FAILED", "TIMED-OUT", "ABORTED"}

\* line 662: if (finalRun.status === "SUCCEEDED")
FetchesResults(r) == r.status = "SUCCEEDED"

InitExec ==
    /\ handler = "executeActor"
    /\ pc = "start"
    /\ request \in [authorization : Headers, actorId : ExecActorIds, input : ExecInputs]
    /\ requests = <<>>
    /\ last = None
    /\ responses = <<>>
    /\ escaped = FALSE
    /\ myActorsResponse = None
    /\ accessibleActorsResponse = None
    /\ allActors = <<>>
    /\ popularIdx = 1
    /\ lookups = <<>>
    /\ actorData = None
    /\ schema = None
    /\ probes = <<>>
    /\ run = None
    /\ finalRun = None
    /\ results = <<>>
    /\ elapsed = 0
    /\ NoCalls
    /\ NoPublic
    /\ NoPage

\* lines 589-618: the checks, then the run is created
ExecStart ==
    /\ handler = "executeActor" /\ pc = "start"
    /\ IF MissingKey(ApiKeyOf(request.authorization))
       THEN /\ Send(ExecError(401, "API key is required"))
            /\ pc' = "done"
            /\ UNCHANGED requests
       ELSE IF request.actorId = ""
       THEN /\ Send(ExecError(400, "Actor ID is required"))
            /\ pc' = "done"
            /\ UNCHANGED requests
       ELSE /\ requests' = Append(requests, PostRun(request.actorId, request.input))
            /\ pc' = "submit"
            /\ Silent
    /\ UNCHANGED <<handler, request, last, listVars, schemaVars, callVars, publicVars, uiVars, execVars>>

\* Lines 639-687 from the loop condition on, the created run having id
\* runId and the tracked run being r at time t: sleep before the next poll, or leave the loop and fetch the
\* dataset, or leave the loop and respond.
AfterPoll(runId, r, t) ==
    IF KeepsPolling(r, t)
    THEN /\ pc' = "sleep"
         /\ Silent
         /\ UNCHANGED requests
    ELSE IF FetchesResults(r)
    THEN /\ pc' = "dataset"
         /\ requests' = Append(requests, Get(DatasetUrl(request.actorId, runId)))
         /\ Silent
    ELSE /\ pc' = "done"
         /\ Send(ExecSuccess(r, results))
         /\ UNCHANGED requests

\* mutant of SubmitFailedStatus: a refused run creation is answered 500
SubmitFailedStatus_ServerError(out) == 500

\* res.status(runResponse.status)
SubmitFailedStatus(out) == out.status

\* lines 620-642: the run creation settles
SubmitSettles ==
    /\ handler = "executeActor" /\ pc = "submit"
    /\ \E out \in Outcomes(RunBodies) :
        /\ last' = Some(out)
        /\ IF out.kind = "throw" \/ (Ok(out) /\ out.body = None)
           THEN /\ Raise("executeActor", ExecCatch)
                /\ pc' = "done"
                /\ UNCHANGED <<requests, run, finalRun>>
           ELSE IF ~Ok(out)
           THEN /\ Send(ExecError(SubmitFailedStatus(out), "Failed to start actor run"))
                /\ pc' = "done"
                /\ UNCHANGED <<requests, run, finalRun>>
           ELSE /\ run' = Some(out.body[1].data)
                /\ finalRun' = Some(out.body[1].data)
                /\ AfterPoll(out.body[1].data.id, out.body[1].data, 0)
    /\ UNCHANGED <<handler, request, results, elapsed, listVars, schemaVars, callVars, publicVars, uiVars>>

\* mutant of Slept: the timer's promise is not awaited
Slept_NotAwaited(interval) == 0

\* await new Promise((resolve) => setTimeout(resolve, pollInterval)): the
\* time that passes before the next statement runs
Slept(interval) == interval

\* line 643: the sleep is over, the poll is issued (lines 646-653)
SleepEnds ==
    /\ handler = "executeActor" /\ pc = "sleep"
    /\ elapsed' = elapsed + Slept(pollInterval)
    /\ requests' = Append(requests, Get(RunUrl(request.actorId, run[1].id)))
    /\ pc' = "poll"
    /\ Silent
    /\ UNCHANGED <<handler, request, last, run, finalRun, results, listVars, schemaVars, callVars, publicVars, uiVars>>

\* lines 655-659 and the loop condition: the poll settles
PollSettles ==
    /\ handler = "executeActor" /\ pc = "poll"
    /\ \E out \in Outcomes(RunBodies), lag \in Lags :
        /\ last' = Some(out)
        /\ elapsed' = elapsed + lag
        /\ IF out.kind = "throw" \/ (Ok(out) /\ out.body = None)
           THEN /\ Raise("executeActor", ExecCatch)
                /\ pc' = "done"
                /\ UNCHANGED <<requests, finalRun>>
           ELSE LET r == IF Ok(out) THEN out.body[1].data ELSE finalRun[1]
                IN  /\ finalRun' = Some(r)
                    /\ AfterPoll(run[1].id, r, elapsed')
    /\ UNCHANGED <<handler, request, run, results, listVars, schemaVars, callVars, publicVars, uiVars>>

\* lines 663-679: the dataset fetch inside its own try/catch
DatasetResults(out) ==
    IF out.kind = "resp" /\ Ok(out) /\ out.body # None THEN out.body[1].items ELSE <<>>

\* mutant of DatasetCatches: the dataset fetch has no try/catch of its own
DatasetCatches_None == FALSE

\* lines 663 and 677-680: the dataset fetch sits in its own try block,
\* whose catch only logs
DatasetCatches == TRUE

\* lines 673-687: the dataset fetch settles, the response is sent
DatasetSettles ==
    /\ handler = "executeActor" /\ pc = "dataset"
    /\ \E out \in Outcomes(DatasetBodies) :
        /\ last' = Some(out)
        /\ IF (out.kind = "throw" \/ (Ok(out) /\ out.body = None)) /\ ~DatasetCatches
           THEN /\ Raise("executeActor", ExecCatch)
                /\ UNCHANGED results
           ELSE /\ results' = DatasetResults(out)
                /\ Send(ExecSuccess(finalRun[1], results'))
    /\ pc' = "done"
    /\ UNCHANGED <<handler, request, requests, run, finalRun, elapsed, listVars, schemaVars, callVars, publicVars, uiVars>>

NextExec ==
    \/ ExecStart
    \/ SubmitSettles
    \/ SleepEnds
    \/ PollSettles
    \/ DatasetSettles

SpecExec == InitExec /\ [][NextExec]_vars

\* every upstream request eventually returns and every timer eventually
\* fires: a step of the handler that can be taken is eventually taken
\* (every step of the handler moves its position)
FairSpecExec == SpecExec /\ WF_pc(NextExec)

----------------------------------------------------------------------------
(* executeActor, two invocations interleaved: the event loop runs one
   invocation from an await to its next await, then any other *)

Calls == {1, 2}

\* upstream names the runs it creates in creation order
RunIdOf(n) == IF n = 1 THEN "r1" ELSE "r2"

\* upstream: the items in the dataset of run id
DatasetOf(id) == << <<"item", id>> >>

\* upstream's answers to a run creation, the run being the n-th created
SubmitAnswers(n) ==
    {Thrown}
    \cup {Resp(s, None) : s \in FailStatuses}
    \cup {Resp(200, Some([data |-> Run(RunIdOf(n), st)])) : st \in RunStatuses}

\* upstream's answers to a poll of run id
PollAnswers(id) ==
    {Thrown}
    \cup {Resp(s, None) : s \in FailStatuses}
    \cup {Resp(200, Some([data |-> Run(id, st)])) : st \in RunStatuses}

\* upstream's answers to a fetch of the dataset of run id
DatasetAnswers(id) ==
    {Thrown}
    \cup {Resp(s, None) : s \in FailStatuses}
    \cup {Resp(200, Some([items |-> DatasetOf(id)]))}

\* the locals of an invocation that has not reached line 629
Frame == [run |-> None, finalRun |-> None, results |-> <<>>, elapsed |-> 0]

\* mutant of Locals: run, finalRun, results and startTime are declared at
\* module level, one frame for every invocation
Locals_ModuleLevel(i) == 1

\* lines 629-637: run, finalRun, results and startTime are declared inside
\* the handler, so invocation i has a frame of its own
Locals(i) == i

InitCalls ==
    /\ handler = "executeActor"
    /\ pc = "calls"
    /\ request = [authorization |-> Some(<<BearerPrefix, "k1">>),
                  actorId |-> "a1",
                  input |-> None]
    /\ requests = <<>>
    /\ last = None
    /\ responses = <<>>
    /\ escaped = FALSE
    /\ myActorsResponse = None
    /\ accessibleActorsResponse = None
    /\ allActors = <<>>
    /\ popularIdx = 1
    /\ lookups = <<>>
    /\ actorData = None
    /\ schema = None
    /\ probes = <<>>
    /\ run = None
    /\ finalRun = None
    /\ results = <<>>
    /\ elapsed = 0
    /\ callPc = [i \in Calls |-> "start"]
    /\ locals = [i \in Calls |-> Frame]
    /\ created = <<>>
    /\ callRequests = [i \in Calls |-> <<>>]
    /\ callResponses = [i \in Calls |-> None]
    /\ NoPublic
    /\ NoPage

\* invocation i moves to position p
Goes(i, p) == callPc' = [callPc EXCEPT ![i] = p]

\* invocation i issues the upstream request r
Issues(i, r) == callRequests' = [callRequests EXCEPT ![i] = Append(@, r)]

\* invocation i sends the response r
Answers(i, r) == callResponses' = [callResponses EXCEPT ![i] = Some(r)]

\* the request invocation i awaits
Awaited(i) == callRequests[i][Len(callRequests[i])]

\* lines 609-618: the checks passed, the run is created
CallStart(i) ==
    /\ callPc[i] = "start"
    /\ Issues(i, PostRun(request.actorId, request.input))
    /\ Goes(i, "submit")
    /\ UNCHANGED <<locals, created, callResponses>>

\* lines 639-687 from the loop condition on, for invocation i whose frame
\* has become f
CallAfterPoll(i, f) ==
    IF KeepsPolling(f.finalRun[1], f.elapsed)
    THEN /\ Goes(i, "sleep")
         /\ UNCHANGED <<callRequests, callResponses>>
    ELSE IF FetchesResults(f.finalRun[1])
    THEN /\ Goes(i, "dataset")
         /\ Issues(i, Get(DatasetUrl(request.actorId, f.run[1].id)))
         /\ UNCHANGED callResponses
    ELSE /\ Goes(i, "done")
         /\ Answers(i, ExecSuccess(f.finalRun[1], f.results))
         /\ UNCHANGED callRequests

\* lines 620-642: the run creation of invocation i settles
CallSubmitSettles(i) ==
    /\ callPc[i] = "submit"
    /\ \E out \in SubmitAnswers(Len(created) + 1) :
        IF out.kind = "throw"
        THEN /\ Answers(i, ExecCatch)
             /\ Goes(i, "done")
             /\ UNCHANGED <<locals, created, callRequests>>
        ELSE IF ~Ok(out)
        THEN /\ Answers(i, ExecError(SubmitFailedStatus(out), "Failed to start actor run"))
             /\ Goes(i, "done")
             /\ UNCHANGED <<locals, created, callRequests>>
        ELSE /\ created' = Append(created, i)
             /\ locals' = [locals EXCEPT ![Locals(i)] =
                              [run |-> Some(out.body[1].data),
                               finalRun |-> Some(out.body[1].data),
                               results |-> <<>>,
                               elapsed |-> 0]]
             /\ CallAfterPoll(i, locals'[Locals(i)])

\* line 643: the sleep of invocation i is over, its poll is issued
CallSleepEnds(i) ==
    /\ callPc[i] = "sleep"
    /\ locals' = [locals EXCEPT ![Locals(i)].elapsed = @ + Slept(pollInterval)]
    /\ Issues(i, Get(RunUrl(request.actorId, locals[Locals(i)].run[1].id)))
    /\ Goes(i, "poll")
    /\ UNCHANGED <<created, callResponses>>

\* lines 655-659 and the loop condition: the poll of invocation i settles
CallPollSettles(i) ==
    /\ callPc[i] = "poll"
    /\ \E out \in PollAnswers(Awaited(i).url[4]) :
        IF out.kind = "throw"
        THEN /\ Answers(i, ExecCatch)
             /\ Goes(i, "done")
             /\ UNCHANGED <<locals, callRequests>>
        ELSE /\ locals' = [locals EXCEPT ![Locals(i)].finalRun =
                              IF Ok(out) THEN Some(out.body[1].data) ELSE @]
             /\ CallAfterPoll(i, locals'[Locals(i)])
    /\ UNCHANGED created

\* lines 663-687: the dataset fetch of invocation i settles
CallDatasetSettles(i) ==
    /\ callPc[i] = "dataset"
    /\ \E out \in DatasetAnswers(Awaited(i).url[4]) :
        /\ locals' = [locals EXCEPT ![Locals(i)].results = DatasetResults(out)]
        /\ Answers(i, ExecSuccess(locals'[Locals(i)].finalRun[1],
                                  locals'[Locals(i)].results))
    /\ Goes(i, "done")
    /\ UNCHANGED <<created, callRequests>>

NextCalls ==
    \E i \in Calls :
        /\ \/ CallStart(i)
           \/ CallSubmitSettles(i)
           \/ CallSleepEnds(i)
           \/ CallPollSettles(i)
           \/ CallDatasetSettles(i)
        /\ UNCHANGED <<commonVars, listVars, schemaVars, execVars, publicVars, uiVars>>

SpecCalls == InitCalls /\ [][NextCalls]_vars

----------------------------------------------------------------------------
(* listPublicActors *)

\* lines 162-169
popularActorIds ==
    << "apify/web-scraper",
       "apify/google-search-results-scraper",
       "apify/instagram-scraper",
       "apify/youtube-scraper",
       "apify/facebook-posts-scraper",
       "apify/amazon-product-scraper" >>

\* what GET /acts/<id> answers for a curated id
PublicBodies(actorId) == [data : {Actor(actorId, "curated")}]

\* the catch block of listPublicActors, lines 194-201
PublicCatch == ListError(500, "Failed to fetch public actors from Apify")

\* mutant of PublicCatches: the mapped function has no try/catch
PublicCatches_None(out) == FALSE

\* lines 172 and 185-188: the mapped function catches whatever its lookup
\* throws and returns null
PublicCatches(out) == TRUE

\* lines 172-188: what the promise of one lookup resolves to (optional:
\* absent for null); a rejected fetch and an unparsable body throw
PromiseValue(out) ==
    IF out.kind = "throw" THEN None
    ELSE IF ~Ok(out) THEN None
    ELSE IF out.body = None THEN None
    ELSE Some(out.body[1].data)

\* lines 172-188: the lookup throws inside the mapped function
LookupThrows(out) == out.kind = "throw" \/ (Ok(out) /\ out.body = None)

\* lines 190-191: the resolved values in the order of the promises, the
\* nulls filtered out
RECURSIVE ValidActors(_, _)
ValidActors(promises, i) ==
    IF i > Len(promises) THEN <<>>
    ELSE PromiseValue(promises[i][1]) \o ValidActors(promises, i + 1)

InitPublic ==
    /\ handler = "listPublicActors"
    /\ pc = "start"
    /\ request \in [authorization : Headers]
    /\ requests = <<>>
    /\ last = None
    /\ responses = <<>>
    /\ escaped = FALSE
    /\ myActorsResponse = None
    /\ accessibleActorsResponse = None
    /\ allActors = <<>>
    /\ popularIdx = 1
    /\ lookups = <<>>
    /\ actorData = None
    /\ schema = None
    /\ probes = <<>>
    /\ run = None
    /\ finalRun = None
    /\ results = <<>>
    /\ elapsed = 0
    /\ NoCalls
    /\ actorPromises = [i \in 1..Len(popularActorIds) |-> None]
    /\ overtaken = FALSE
    /\ NoPage

\* lines 150-188: the credential check, then map starts every lookup, each
\* running up to its fetch
PublicStart ==
    /\ handler = "listPublicActors" /\ pc = "start"
    /\ IF MissingKey(ApiKeyOf(request.authorization))
       THEN /\ Send(ListError(401, "API key is required"))
            /\ pc' = "done"
            /\ UNCHANGED requests
       ELSE /\ requests' = requests \o
                   [i \in 1..Len(popularActorIds) |-> Get(ActorUrl(popularActorIds[i]))]
            /\ pc' = "awaitAll"
            /\ Silent
    /\ UNCHANGED <<handler, request, last, listVars, schemaVars, execVars, callVars, uiVars, publicVars>>

\* lines 172-190: one pending lookup settles, whichever; a throw the mapped
\* function does not catch rejects Promise.all
PublicLookupSettles ==
    /\ handler = "listPublicActors" /\ pc = "awaitAll"
    /\ \E i \in 1..Len(popularActorIds) :
        /\ actorPromises[i] = None
        /\ \E out \in Outcomes(PublicBodies(popularActorIds[i])) :
            /\ last' = Some(out)
            /\ actorPromises' = [actorPromises EXCEPT ![i] = Some(out)]
            /\ overtaken' = (overtaken \/ \E j \in 1..(i - 1) : actorPromises[j] = None)
            /\ IF LookupThrows(out) /\ ~PublicCatches(out)
               THEN /\ Raise("listPublicActors", PublicCatch)
                    /\ pc' = "done"
               ELSE /\ Silent
                    /\ UNCHANGED pc
    /\ UNCHANGED <<handler, request, requests, listVars, schemaVars, execVars, callVars, uiVars>>

\* lines 190-198: every lookup has settled, the valid actors are sent
PublicRespond ==
    /\ handler = "listPublicActors" /\ pc = "awaitAll"
    /\ \A i \in 1..Len(popularActorIds) : actorPromises[i] # None
    /\ Send(ListSuccess(ValidActors(actorPromises, 1)))
    /\ pc' = "done"
    /\ UNCHANGED <<handler, request, requests, last, listVars, schemaVars, execVars, callVars, uiVars, publicVars>>

NextPublic ==
    \/ PublicStart
    \/ PublicLookupSettles
    \/ PublicRespond

SpecPublic == InitPublic /\ [][NextPublic]_vars

----------------------------------------------------------------------------
(* The Index page: the actors view and the execution view, the key having
   been validated and the actors loaded *)

\* the requests the page may have in flight at once
MaxInFlight == 2

\* the actors of the grid
PageActors == {"a1", "a2"}

\* the schema the server holds for an actor
SchemaOf(actorId) == [title |-> actorId, properties |-> <<"p">>]

\* {} as ApifyInputSchema
NoSchemaObject == [properties |-> <<>>]

\* how a schema request ends: a success envelope, an envelope with the
\* error field set, or a non-success status or a rejected fetch
SchemaEndings == {"schema", "error", "failed"}

\* what the page holds once the schema request for actorId has ended
SchemaHeld(actorId, ending) ==
    IF ending = "schema" THEN Some(SchemaOf(actorId))
    ELSE IF ending = "error" THEN Some(NoSchemaObject)
    ELSE None

\* the run the server returns for an execution of actorId
PageRun(actorId, status) == [actId |-> actorId, status |-> status]

\* how an execute request ends: a success envelope with the run, an error
\* envelope, or a rejected fetch or unparsable body
ExecuteEndings ==
    {[kind |-> "run", status |-> st] : st \in {"SUCCEEDED", "FAILED"}}
    \cup {[kind |-> "error", status |-> ""], [kind |-> "throw", status |-> ""]}

\* mutant of IsExecutingAfter: the flag is reset only where the result is set
IsExecutingAfter_OnlyOnSuccess(ending) == ending.kind # "run"

\* finally { setIsExecuting(false) }
IsExecutingAfter(ending) == FALSE

InFlight(fetches) == fetches["a1"] + fetches["a2"]

InitPage ==
    /\ handler = "Index"
    /\ pc = "page"
    /\ request = None
    /\ requests = <<>>
    /\ last = None
    /\ responses = <<>>
    /\ escaped = FALSE
    /\ myActorsResponse = None
    /\ accessibleActorsResponse = None
    /\ allActors = <<>>
    /\ popularIdx = 1
    /\ lookups = <<>>
    /\ actorData = None
    /\ schema = None
    /\ probes = <<>>
    /\ run = None
    /\ finalRun = None
    /\ results = <<>>
    /\ elapsed = 0
    /\ NoCalls
    /\ NoPublic
    /\ appState = "actors"
    /\ selectedActor = None
    /\ actorSchema = None
    /\ isExecuting = FALSE
    /\ executionResult = None
    /\ schemaFetches = [a \in PageActors |-> 0]
    /\ executeFetch = None

\* lines 123-134: a card of the grid is clicked, selectActor runs up to its
\* fetch
SelectActor(actor) ==
    /\ appState = "actors"
    /\ InFlight(schemaFetches) < MaxInFlight
    /\ selectedActor' = Some(actor)
    /\ actorSchema' = None
    /\ executionResult' = None
    /\ appState' = "execution"
    /\ schemaFetches' = [schemaFetches EXCEPT ![actor] = @ + 1]
    /\ UNCHANGED <<last, isExecuting, executeFetch>>

\* line 619: Back to Actors
BackToActors ==
    /\ appState = "execution"
    /\ appState' = "actors"
    /\ UNCHANGED <<last, selectedActor, actorSchema, isExecuting, executionResult,
                   schemaFetches, executeFetch>>

\* lines 139-191: a schema request ends, the rest of selectActor runs
SchemaArrives(actor) ==
    /\ schemaFetches[actor] > 0
    /\ \E ending \in SchemaEndings :
          actorSchema' = SchemaHeld(actor, ending)
    /\ schemaFetches' = [schemaFetches EXCEPT ![actor] = @ - 1]
    /\ UNCHANGED <<last, appState, selectedActor, isExecuting, executionResult, executeFetch>>

\* lines 194-208 and 693-694: Execute is clicked, executeActor runs up to
\* its fetch
Execute ==
    /\ appState = "execution"
    /\ selectedActor # None
    /\ ~isExecuting
    /\ isExecuting' = TRUE
    /\ executionResult' = None
    /\ executeFetch' = selectedActor
    /\ UNCHANGED <<last, appState, selectedActor, actorSchema, schemaFetches>>

\* lines 210-241: the execute request ends, the rest of executeActor runs
ExecuteArrives ==
    /\ executeFetch # None
    /\ \E ending \in ExecuteEndings :
        /\ last' = Some(ending)
        /\ executionResult' =
              IF ending.kind = "run"
              THEN Some(PageRun(executeFetch[1], ending.status))
              ELSE executionResult
        /\ isExecuting' = IsExecutingAfter(ending)
    /\ executeFetch' = None
    /\ UNCHANGED <<appState, selectedActor, actorSchema, schemaFetches>>

NextPage ==
    /\ \/ \E actor \in PageActors : SelectActor(actor)
       \/ BackToActors
       \/ \E actor \in PageActors : SchemaArrives(actor)
       \/ Execute
       \/ ExecuteArrives
    /\ UNCHANGED <<handler, pc, request, requests, responses, escaped>>
    /\ UNCHANGED <<listVars, schemaVars, execVars, callVars, publicVars>>

SpecPage == InitPage /\ [][NextPage]_vars

\* every request of the page eventually ends
FairSpecPage ==
    /\ SpecPage
    /\ WF_uiVars(ExecuteArrives)
    /\ \A actor \in PageActors : WF_uiVars(SchemaArrives(actor))

----------------------------------------------------------------------------
(* Any one of the four handlers serves the request *)

Init == InitValidate \/ InitList \/ InitSchema \/ InitExec

Next == NextValidate \/ NextList \/ NextSchema \/ NextExec

Spec == Init /\ [][Next]_vars

----------------------------------------------------------------------------
(* Properties of listActors *)

ListDone == handler = "listActors" /\ pc = "done"

\* the response of a finished handler
TheResponse == responses[1]

ListSucceeded == ListDone /\ Len(responses) = 1 /\ TheResponse.body.error = None

NoDuplicateIds(actors) ==
    \A i, j \in 1..Len(actors) : actors[i].id = actors[j].id => i = j

\* a listing response that is a success with a parsable body
Listed(r) == r # None /\ Ok(r[1]) /\ r[1].body # None

ItemsOf(r) == IF Listed(r) THEN r[1].body[1].items ELSE <<>>

\* the owned items followed by the accessible items whose id is not owned
ListingUnion ==
    LET owned == ItemsOf(myActorsResponse)
        ownedIds == {owned[i].id : i \in 1..Len(owned)}
    IN  owned \o SelectSeq(ItemsOf(accessibleActorsResponse),
                           LAMBDA a : a.id \notin ownedIds)

\* the actors the upstream answered the curated lookups with, in lookup order
RECURSIVE AnsweredActors(_)
AnsweredActors(ls) ==
    IF ls = <<>> THEN <<>>
    ELSE ls[1].actor \o AnsweredActors(Tail(ls))

CuratedIndex(actorId) == IndexFrom(popularActors, actorId, 1)

\* C1: the actor list of a successful listActors response holds no two
\* actors with the same id, whatever the listings and the curated lookups
\* answered.
C1_NoDuplicateIds ==
    ListSucceeded => NoDuplicateIds(TheResponse.body.actors)

\* C2: a successful listActors response is the owned items in their order,
\* then the accessible items whose id is not owned in their order, then the
\* actors the curated lookups fetched, in curated-list order; the lookups
\* are issued in curated-list order, only for ids not yet present.
C2_MergedOrder ==
    /\ ListSucceeded =>
          TheResponse.body.actors = ListingUnion \o AnsweredActors(lookups)
    /\ handler = "listActors" =>
          \A i \in 1..Len(lookups) :
             /\ \A j \in 1..(i - 1) :
                   CuratedIndex(lookups[j].actorId) < CuratedIndex(lookups[i].actorId)
             /\ lookups[i].actorId \notin
                   IdsOf(ListingUnion \o AnsweredActors(SubSeq(lookups, 1, i - 1)))

C2_Witness ==
    /\ ListSucceeded
    /\ Len(ItemsOf(myActorsResponse)) = 2
    /\ Len(ItemsOf(accessibleActorsResponse)) = 2
    /\ Len(ListingUnion) = 3
    /\ Len(lookups) = 2
    /\ Len(AnsweredActors(lookups)) = 1
    /\ Len(TheResponse.body.actors) = 4

\* a listing that failed by a non-success status or by a network exception
ListingFailed(r) ==
    \/ r # None /\ ~Ok(r[1])
    \/ r = None /\ last = Some(Thrown)

\* C3: listActors answers with an error only when both listings fail: when
\* one listing succeeds and the other fails by a non-success status or a
\* network exception, the response is a success carrying the actors of the
\* listing that succeeded.
C3_ErrorOnlyWhenBothFail ==
    (/\ ListDone
     /\ Len(requests) >= 2
     /\ \/ Listed(myActorsResponse) /\ ListingFailed(accessibleActorsResponse)
        \/ Listed(accessibleActorsResponse) /\ ListingFailed(myActorsResponse))
    => /\ Len(responses) = 1
       /\ TheResponse.body.error = None
       /\ SubSeq(TheResponse.body.actors, 1, Len(ListingUnion)) = ListingUnion

\* C4: when both listings return a non-success status, listActors answers
\* with an empty actor list, an error message and the status of the owned
\* listing's response, and no curated lookup is issued.
C4_BothFailed ==
    (/\ ListDone
     /\ myActorsResponse # None /\ ~Ok(myActorsResponse[1])
     /\ accessibleActorsResponse # None /\ ~Ok(accessibleActorsResponse[1]))
    => /\ Len(responses) = 1
       /\ TheResponse.body.actors = <<>>
       /\ TheResponse.body.error # None
       /\ TheResponse.status = myActorsResponse[1].status
       /\ requests = <<Get(MyActorsUrl), Get(AccessibleUrl)>>
       /\ lookups = <<>>

C4_Witness ==
    /\ ListDone
    /\ Len(responses) = 1
    /\ myActorsResponse # None /\ myActorsResponse[1].status = 401
    /\ accessibleActorsResponse # None /\ accessibleActorsResponse[1].status = 500

\* C5: a curated lookup that fails (non-success status, network exception,
\* unparsable body) never makes listActors fail and never changes the
\* entries already merged; when every curated lookup fails the response is
\* exactly the owned + accessible union.
C5_CuratedFailureIsolated ==
    (ListDone /\ lookups # <<>>)
    => /\ Len(responses) = 1
       /\ TheResponse.body.error = None
       /\ TheResponse.status = 200
       /\ SubSeq(TheResponse.body.actors, 1, Len(ListingUnion)) = ListingUnion
       /\ (\A i \in 1..Len(lookups) : lookups[i].actor = None)
             => TheResponse.body.actors = ListingUnion

C5_Witness ==
    /\ ListDone
    /\ Len(lookups) = Len(popularActors)
    /\ \A i \in 1..Len(lookups) : lookups[i].actor = None
    /\ last = Some(Thrown)
    /\ Len(ListingUnion) = 2
    /\ TheResponse.body.actors = ListingUnion

----------------------------------------------------------------------------
(* Properties of all handlers *)

Done == pc = "done"

KeyedHandlers == {"listActors", "getActorSchema", "executeActor"}

\* the request carries no credential: no Authorization header, an empty
\* one, or the bare prefix
NoCredential ==
    /\ handler \in KeyedHandlers
    /\ request.authorization \in {<<>>, << <<>> >>, << <<"Bearer ">> >>}

\* r is an error envelope: an error message and a non-success status
IsErrorEnvelope(r) == r.body.error # None /\ ~Ok(r)

\* r is a success envelope: no error field and a success status
IsSuccessEnvelope(r) == r.body.error = None /\ Ok(r)

\* C6: listActors, getActorSchema and executeActor, called without a
\* credential, issue no upstream request at all and respond with an error
\* envelope.
C6_NoCredentialFailsFast ==
    NoCredential =>
       /\ requests = <<>>
       /\ last = None
       /\ pc \in {"start", "done"}
       /\ ~Done => ENABLED Next
       /\ Done => /\ Len(responses) = 1
                  /\ IsErrorEnvelope(responses[1])
                  /\ responses[1].status = 401

C6_Witness ==
    /\ handler = "executeActor"
    /\ request.authorization = << <<"Bearer ">> >>
    /\ request.actorId = "a1"
    /\ Done
    /\ Len(responses) = 1
    /\ responses[1].status = 401
    /\ requests = <<>>

\* C7: whatever the request and whatever the upstream does at each step,
\* every handler sends exactly one response, a success envelope without an
\* error field or an error envelope with an error message, and no exception
\* leaves the handler.
C7_ExactlyOneEnvelope ==
    /\ ~escaped
    /\ Len(responses) <= 1
    /\ Len(responses) = 1 <=> Done
    /\ \A i \in 1..Len(responses) :
          IsSuccessEnvelope(responses[i]) \/ IsErrorEnvelope(responses[i])

C7_Witness ==
    /\ handler = "executeActor"
    /\ Done
    /\ Len(requests) >= 3
    /\ last # None
    /\ last[1].kind = "throw"
    /\ Len(responses) = 1
    /\ IsErrorEnvelope(responses[1])
    /\ ~escaped

----------------------------------------------------------------------------
(* Properties of getActorSchema *)

SchemaDone == handler = "getActorSchema" /\ pc = "done"

\* the detail fetch succeeded and its body parsed
DetailFetched == handler = "getActorSchema" /\ actorData # None

SchemaSucceeded ==
    /\ SchemaDone
    /\ Len(responses) = 1
    /\ TheResponse.status = 200
    /\ TheResponse.body.error = None

\* the cascade, in the order of the probes
Cascade == <<"embedded", "versions", "build", "builds", "example", "override", "fallback">>

CascadeIndex(probe) == IndexFrom(Cascade, probe, 1)

\* the first probe of the history that left a schema, 0 when none did
FirstYield ==
    IF \E i \in 1..Len(probes) : probes[i].after # None
    THEN CHOOSE i \in 1..Len(probes) :
            /\ probes[i].after # None
            /\ \A j \in 1..(i - 1) : probes[j].after = None
    ELSE 0

\* C8: when the detail fetch succeeds, the probes run in the order embedded
\* version schema, versions query, tagged build, builds query, example
\* synthesis, static override, metadata fallback, and the schema returned
\* is the one the first probe that yielded a schema left: no later probe
\* overrides it.
C8_FirstProbeWins ==
    /\ handler = "getActorSchema" =>
          \A i, j \in 1..Len(probes) :
             i < j => CascadeIndex(probes[i].probe) < CascadeIndex(probes[j].probe)
    /\ (SchemaDone /\ DetailFetched) =>
          /\ SchemaSucceeded
          /\ FirstYield # 0
          /\ TheResponse.body.schema = probes[FirstYield].after

C8_Witness ==
    /\ SchemaSucceeded
    /\ DetailFetched
    /\ request.actorId = OverrideActorId
    /\ actorData[1].exampleRunInput # None
    /\ Len(probes) = 4
    /\ probes[3].probe = "build" /\ probes[3].after = None
    /\ probes[4].probe = "builds" /\ probes[4].after # None

\* C9: if the first entry of the detail's version list carries a schema S,
\* getActorSchema returns exactly S, also for the actor id with a static
\* override and whatever the example input, the builds and the metadata are.
C9_EmbeddedPassthrough ==
    (/\ SchemaDone
     /\ DetailFetched
     /\ Len(actorData[1].versions) > 0
     /\ actorData[1].versions[1].inputSchema # None)
    => /\ SchemaSucceeded
       /\ TheResponse.body.schema = actorData[1].versions[1].inputSchema

C9_Witness ==
    /\ SchemaSucceeded
    /\ DetailFetched
    /\ request.actorId = OverrideActorId
    /\ Len(actorData[1].versions) = 2
    /\ actorData[1].versions[1].inputSchema # None
    /\ actorData[1].versions[2].inputSchema # actorData[1].versions[1].inputSchema
    /\ actorData[1].exampleRunInput # None
    /\ actorData[1].taggedLatest # None
    /\ TheResponse.body.schema = actorData[1].versions[1].inputSchema

\* what the cascade returns when no probe up to the example probe yields
AfterExample ==
    IF request.actorId = OverrideActorId
    THEN Some(OverrideSchema)
    ELSE Some(FallbackSchema(actorData[1]))

\* C10: a probe after the detail fetch (versions query, build detail, builds
\* query, example synthesis) that fails by a non-success response or by an
\* exception raised inside it contributes no schema: the cascade goes on as
\* if the probe had found nothing, and the failure is not reported.
C10_FailedProbeYieldsNothing ==
    (SchemaDone /\ DetailFetched) =>
       \A i \in 1..Len(probes) :
          (probes[i].probe \in {"versions", "build", "builds", "example"}
             /\ probes[i].failed)
          => /\ probes[i].after = None
             /\ SchemaSucceeded
             /\ probes[i].probe = "example" => TheResponse.body.schema = AfterExample


\* the probe whose schema the cascade returned
YieldingProbe == probes[FirstYield].probe

\* the cascade ran to its end and the schema came from the resolver itself
ResolverMade ==
    /\ SchemaDone /\ DetailFetched
    /\ FirstYield # 0
    /\ YieldingProbe \in {"example", "override", "fallback"}

\* the keys of a schema's properties, in order
KeysOf(s) == [i \in 1..Len(s.properties) |-> s.properties[i].key]

\* C11: whenever the detail fetch succeeds and the schema returned was made
\* by the resolver itself (example synthesis, static override, metadata
\* fallback), its properties are not empty, whatever the example payload
\* and the metadata.
C11_ResolverSchemaNonEmpty ==
    ResolverMade =>
       /\ SchemaSucceeded
       /\ TheResponse.body.schema # None
       /\ Len(TheResponse.body.schema[1].properties) > 0


\* C12: in every response of getActorSchema, schema is null exactly when
\* the error field is set: a success envelope carries a schema, and every
\* error envelope (missing credential, missing actor id, failed detail
\* fetch, unexpected exception) carries schema null.
C12_NullExactlyOnError ==
    handler = "getActorSchema" =>
       \A i \in 1..Len(responses) :
          /\ responses[i].body.schema = None <=> responses[i].body.error # None
          /\ Ok(responses[i]) => responses[i].body.schema # None
          /\ ~Ok(responses[i]) => responses[i].body.schema = None

C12_Witness ==
    /\ SchemaSucceeded
    /\ DetailFetched
    /\ YieldingProbe = "fallback"
    /\ TheResponse.body.schema # None
    /\ TheResponse.body.error = None


\* no version probe and no build probe left a schema
NoUpstreamSchema ==
    /\ SchemaDone /\ DetailFetched
    /\ \A i \in 1..Len(probes) :
          probes[i].probe \in {"embedded", "versions", "build", "builds"}
             => probes[i].after = None

\* the keys of the predefined schema, as the source lists them
OverrideKeys ==
    << "searchQuery", "locationQuery", "maxCrawledPlacesPerSearch", "language",
       "categoryFilterWords", "searchMatching", "placeMinimumStars", "website",
       "skipClosedPlaces", "scrapePlaceDetailPage", "maxReviews", "maxImages",
       "countryCode", "city", "state", "postalCode" >>

ReturnsOverride ==
    /\ SchemaSucceeded
    /\ TheResponse.body.schema # None
    /\ TheResponse.body.schema[1].title = "Google Maps Scraper"
    /\ KeysOf(TheResponse.body.schema[1]) = OverrideKeys
    /\ TheResponse.body.schema[1].required = Some(<<>>)

\* C13, as claimed: for the actor id of the static override, whenever no
\* version probe and no build probe yields a schema, the override schema is
\* returned unchanged, whatever the example run input and the metadata.
C13_OverrideWhateverExample ==
    (NoUpstreamSchema /\ request.actorId = "nwua9Gu5YrADL7ZDj") => ReturnsOverride

\* the detail carries no example run input, or one whose body is empty or
\* is not JSON text
NoUsableExample ==
    \/ actorData[1].exampleRunInput = None
    \/ actorData[1].exampleRunInput[1].body.kind \in {"empty", "garbage"}

\* example synthesis left no schema either
NoExampleSchema ==
    \A i \in 1..Len(probes) : probes[i].probe = "example" => probes[i].after = None

\* C13, amended: for the actor id of the static override, whenever no
\* version probe, no build probe and no example synthesis yields a schema
\* (in particular whenever the detail carries no example run input, or one
\* whose body is empty or is not JSON text), the override schema is
\* returned unchanged, whatever the metadata.
C13_OverrideWithoutExample ==
    (NoUpstreamSchema /\ request.actorId = "nwua9Gu5YrADL7ZDj")
       => /\ NoExampleSchema => ReturnsOverride
          /\ NoUsableExample => ReturnsOverride

C13_Witness ==
    /\ NoUpstreamSchema
    /\ request.actorId = "nwua9Gu5YrADL7ZDj"
    /\ actorData[1].exampleRunInput # None
    /\ actorData[1].exampleRunInput[1].body.kind = "garbage"
    /\ actorData[1].pricingInfos # None
    /\ Len(probes) = 6
    /\ probes[5].probe = "example" /\ probes[5].failed
    /\ ReturnsOverride


\* the detail fetch was answered with a non-success status
DetailRefused ==
    /\ SchemaDone
    /\ actorData = None
    /\ last # None
    /\ last[1].kind = "resp"
    /\ ~Ok(last[1])

\* C14: when the detail fetch returns a non-success status, getActorSchema
\* responds with schema null, an error message and the upstream's status,
\* and issues no further upstream request.
C14_DetailStatusPreserved ==
    DetailRefused =>
       /\ Len(responses) = 1
       /\ TheResponse.body.schema = None
       /\ TheResponse.body.error # None
       /\ TheResponse.status = last[1].status
       /\ requests = <<Get(<<"acts", request.actorId>>)>>


\* the example probe ran to its end and its schema is the one returned
Synthesized ==
    /\ SchemaSucceeded /\ DetailFetched
    /\ FirstYield # 0
    /\ YieldingProbe = "example"
    /\ ~probes[FirstYield].failed

\* the example payload as written upstream: its members in text order
Payload == actorData[1].exampleRunInput[1].body.entries

\* the value the payload gives a key: of a key written twice, the last one
RECURSIVE ValueIn(_, _)
ValueIn(ms, key) ==
    IF ms[Len(ms)].key = key THEN ms[Len(ms)].value
    ELSE ValueIn(SubSeq(ms, 1, Len(ms) - 1), key)

SynthesizedProperties == TheResponse.body.schema[1].properties

\* C16: example synthesis gives each property the type of its example
\* value: string for a string, number for a number, boolean for a boolean,
\* array for a sequence, object for a nested record.
C16_TypeOfExampleValue ==
    Synthesized =>
       \A i \in 1..Len(SynthesizedProperties) :
          LET p == SynthesizedProperties[i]
              v == ValueIn(Payload, p.key)
          IN  /\ v.t = "string"  => p.type = "string"
              /\ v.t = "number"  => p.type = "number"
              /\ v.t = "boolean" => p.type = "boolean"
              /\ v.t = "array"   => p.type = "array"
              /\ v.t = "object"  => p.type = "object"

C16_Witness ==
    /\ Synthesized
    /\ Len(SynthesizedProperties) = 2
    /\ SynthesizedProperties[1].key = "urls"
    /\ SynthesizedProperties[1].type = "array"
    /\ SynthesizedProperties[2].key = "options"
    /\ SynthesizedProperties[2].type = "object"


\* C17: example synthesis gives type string to every property whose example
\* value is none of string, number, boolean, sequence or nested record, in
\* particular to a null value.
C17_OtherValuesAreString ==
    Synthesized =>
       \A i \in 1..Len(SynthesizedProperties) :
          LET p == SynthesizedProperties[i]
              v == ValueIn(Payload, p.key)
          IN  v.t \notin {"string", "number", "boolean", "array", "object"}
                 => p.type = "string"


\* C18: example synthesis sets a property's format to the multi-line text
\* hint exactly when its example value is a string longer than 50
\* characters: not for a string of length 50 or less, not for a value that
\* is not a string.
C18_TextareaOver50 ==
    Synthesized =>
       \A i \in 1..Len(SynthesizedProperties) :
          LET p == SynthesizedProperties[i]
              v == ValueIn(Payload, p.key)
          IN  /\ (v.t = "string" /\ v.len >= 51) => p.format = Some("textarea")
              /\ (v.t = "string" /\ v.len <= 50) => p.format = None
              /\ v.t # "string" => p.format = None

C18_Witness ==
    /\ Synthesized
    /\ Len(SynthesizedProperties) = 2
    /\ SynthesizedProperties[1].key = "query"
    /\ ValueIn(Payload, "query").len = 50
    /\ SynthesizedProperties[1].format = None
    /\ SynthesizedProperties[2].key = "text"
    /\ ValueIn(Payload, "text").len = 51
    /\ SynthesizedProperties[2].format = Some("textarea")


\* the keys of the payload in the order they are written, each one once
RECURSIVE WrittenKeys(_, _)
WrittenKeys(ms, seen) ==
    IF ms = <<>> THEN <<>>
    ELSE IF ms[1].key \in seen THEN WrittenKeys(Tail(ms), seen)
    ELSE <<ms[1].key>> \o WrittenKeys(Tail(ms), seen \cup {ms[1].key})

\* C19: the schema synthesized from an example payload has exactly one
\* property per key of the payload, with the same keys in the same order,
\* and no required entries.
C19_OnePropertyPerKeyInOrder ==
    Synthesized =>
       /\ KeysOf(TheResponse.body.schema[1]) = WrittenKeys(Payload, {})
       /\ TheResponse.body.schema[1].required \in {None, Some(<<>>)}


\* the keys ks with the array indices first, in ascending order, then the
\* other keys as they stand
IndicesFirst(ks) ==
    LET Seven(k) == k = "7"
        Ten(k) == k = "10"
        Name(k) == k \notin {"7", "10"}
    IN  SelectSeq(ks, Seven) \o SelectSeq(ks, Ten) \o SelectSeq(ks, Name)

\* C19, amended: the schema synthesized from an example payload has exactly
\* one property per key of the payload and no required entries; the keys
\* come in the order in which the parsed payload enumerates them: the keys
\* that are array indices first, in ascending order, then the other keys in
\* the order they are written.
C19_OnePropertyPerKey ==
    Synthesized =>
       /\ KeysOf(TheResponse.body.schema[1]) = IndicesFirst(WrittenKeys(Payload, {}))
       /\ TheResponse.body.schema[1].required \in {None, Some(<<>>)}

C19_Witness ==
    /\ Synthesized
    /\ Len(Payload) = 2
    /\ Payload[1].key = "query"
    /\ Payload[2].key = "7"
    /\ KeysOf(TheResponse.body.schema[1]) = <<"7", "query">>
    /\ TheResponse.body.schema[1].required = None


\* the metadata fallback made the schema returned
FellBack ==
    /\ SchemaSucceeded /\ DetailFetched
    /\ FirstYield # 0
    /\ YieldingProbe = "fallback"

DeclaresJobs ==
    /\ actorData[1].categories # None
    /\ \E i \in 1..Len(actorData[1].categories[1]) : actorData[1].categories[1][i] = "JOBS"

HasPricingEntry ==
    /\ actorData[1].pricingInfos # None
    /\ Len(actorData[1].pricingInfos[1]) >= 1

FallbackProperties == TheResponse.body.schema[1].properties

\* C20: the metadata fallback schema always has the free-text field
\* 'input'; it has 'keywords' and 'location' exactly when the categories
\* include JOBS, the read-only '_pricing_info' exactly when there is at
\* least one pricing entry, and no other property: it is never empty.
C20_FallbackProperties ==
    FellBack =>
       /\ KeysOf(TheResponse.body.schema[1]) =
             (IF DeclaresJobs THEN <<"keywords", "location">> ELSE <<>>)
             \o <<"input">>
             \o (IF HasPricingEntry THEN <<"_pricing_info">> ELSE <<>>)
       /\ Len(FallbackProperties) > 0
       /\ \A i \in 1..Len(FallbackProperties) :
             /\ FallbackProperties[i].key = "input" =>
                   /\ FallbackProperties[i].type = "string"
                   /\ FallbackProperties[i].format = Some("textarea")
             /\ FallbackProperties[i].key = "_pricing_info" =>
                   FallbackProperties[i].readOnly

C20_Witness ==
    /\ FellBack
    /\ DeclaresJobs
    /\ HasPricingEntry
    /\ KeysOf(TheResponse.body.schema[1]) = <<"keywords", "location", "input", "_pricing_info">>


----------------------------------------------------------------------------
(* Properties of executeActor *)

ExecDone == handler = "executeActor" /\ pc = "done"

\* the invocation passes the credential and actor id checks
PassesChecks ==
    /\ handler = "executeActor"
    /\ request.authorization = << <<"Bearer ", "k1">> >>
    /\ request.actorId # ""

\* the kinds of request executeActor issues
IsSubmit(r) == r.method = "POST" /\ r.url = <<"acts", request.actorId, "runs">>
IsPoll(r) == r.method = "GET" /\ Len(r.url) = 4
IsDatasetFetch(r) == r.method = "GET" /\ Len(r.url) = 6 /\ r.url[5] = "dataset"

Submits == {i \in 1..Len(requests) : IsSubmit(requests[i])}
Polls == {i \in 1..Len(requests) : IsPoll(requests[i])}
DatasetFetches == {i \in 1..Len(requests) : IsDatasetFetch(requests[i])}

\* C22: an invocation of executeActor that passes the credential and actor
\* id checks issues exactly one run-creation request and at most one
\* dataset fetch, whatever the upstream answers.
C22_OneSubmitOneFetch ==
    PassesChecks =>
       /\ pc = "start" => requests = <<>>
       /\ pc # "start" => Cardinality(Submits) = 1 /\ IsSubmit(requests[1])
       /\ Cardinality(DatasetFetches) <= 1

C22_Witness ==
    /\ ExecDone
    /\ PassesChecks
    /\ Cardinality(Submits) = 1
    /\ Cardinality(Polls) = 3
    /\ Cardinality(DatasetFetches) = 1
    /\ Len(requests) = 5


\* the loop of executeActor has been left with a Run in hand
LoopLeft == handler = "executeActor" /\ pc \in {"dataset", "done"} /\ finalRun # None

\* C23: executeActor issues the dataset fetch if and only if the last
\* observed run status is SUCCEEDED; with a final status of FAILED,
\* TIMED-OUT, ABORTED, READY or RUNNING there is no dataset request and the
\* response carries no results.
C23_FetchIffSucceeded ==
    /\ LoopLeft =>
          (DatasetFetches # {} <=> finalRun[1].status = "SUCCEEDED")
    /\ ExecDone /\ finalRun # None /\ finalRun[1].status # "SUCCEEDED" =>
          /\ Len(responses) = 1
          /\ TheResponse.body.results = None

C23_Witness ==
    /\ ExecDone
    /\ finalRun # None
    /\ finalRun[1].status = "FAILED"
    /\ Polls # {}
    /\ DatasetFetches = {}
    /\ Len(responses) = 1
    /\ TheResponse.body.results = None


TerminalStatuses == {"SUCCEEDED", "FAILED", "TIMED-OUT", "ABORTED"}

\* C24: the poll loop of executeActor ends only when the last observed
\* status is terminal or when the 60 second ceiling has elapsed: a run that
\* is still READY or RUNNING before the ceiling keeps being polled.
C24_LoopEndsTerminalOrCeiling ==
    LoopLeft /\ ~escaped /\ (pc = "done" => IsSuccessEnvelope(TheResponse)) =>
        \/ finalRun[1].status \in TerminalStatuses
        \/ elapsed >= maxWaitTime


\* the last request was a poll and upstream answered it with Run r
PollReported(status) ==
    /\ requests # <<>>
    /\ IsPoll(requests[Len(requests)])
    /\ last # None
    /\ last[1].kind = "resp"
    /\ Ok(last[1])
    /\ last[1].body # None
    /\ last[1].body[1].data.status = status

\* C25: when the polls report RUNNING until the 60 second ceiling has
\* elapsed, executeActor returns a success envelope carrying the last
\* observed Run, status RUNNING, and issues no dataset fetch.
C25_CeilingReturnsRunning ==
    ExecDone /\ PollReported("RUNNING") =>
        /\ elapsed >= 60000
        /\ Len(responses) = 1
        /\ IsSuccessEnvelope(TheResponse)
        /\ TheResponse.body.run = <<last[1].body[1].data>>
        /\ TheResponse.body.run[1].status = "RUNNING"
        /\ TheResponse.body.results = None
        /\ DatasetFetches = {}

C25_Witness ==
    /\ ExecDone
    /\ PollReported("RUNNING")
    /\ Cardinality(Polls) = 30
    /\ IsSuccessEnvelope(TheResponse)
    /\ TheResponse.body.run[1].status = "RUNNING"


\* the last poll has settled and it failed: a non-success response, a
\* rejected fetch or an unparsable body
PollFailed ==
    /\ handler = "executeActor"
    /\ pc # "poll"
    /\ requests # <<>>
    /\ IsPoll(requests[Len(requests)])
    /\ last # None
    /\ FetchFailed(last[1])

\* C26: a poll attempt of executeActor that fails, by non-success response
\* or by a network or parse exception, does not end the invocation: unless
\* the ceiling has elapsed the loop goes on, and the call still ends with a
\* success envelope.
C26_FailedPollIgnored ==
    PollFailed =>
        /\ ~escaped
        /\ pc = "done" =>
              /\ elapsed >= maxWaitTime
              /\ Len(responses) = 1
              /\ IsSuccessEnvelope(TheResponse)


\* the dataset fetch has settled and it failed
DatasetFetchFailed ==
    /\ ExecDone
    /\ requests # <<>>
    /\ IsDatasetFetch(requests[Len(requests)])
    /\ last # None
    /\ FetchFailed(last[1])

\* C27: when the final status is SUCCEEDED and the dataset fetch fails, by
\* non-success response or by a network or parse exception, executeActor
\* still returns a success envelope carrying the SUCCEEDED Run, without
\* results and without an error field.
C27_FailedFetchSwallowed ==
    DatasetFetchFailed =>
        /\ ~escaped
        /\ Len(responses) = 1
        /\ IsSuccessEnvelope(TheResponse)
        /\ TheResponse.body.run = <<finalRun[1]>>
        /\ finalRun[1].status = "SUCCEEDED"
        /\ TheResponse.body.results = None
        /\ TheResponse.body.error = None

C27_Witness ==
    /\ DatasetFetchFailed
    /\ last[1].kind = "throw"
    /\ Len(responses) = 1
    /\ TheResponse.status = 200
    /\ TheResponse.body.results = None

\* the run creation was answered with a non-success status
SubmitRefused ==
    /\ handler = "executeActor"
    /\ run = None
    /\ last # None
    /\ last[1].kind = "resp"
    /\ ~Ok(last[1])

\* C28: when the run-creation request returns a non-success status,
\* executeActor responds with an error envelope whose HTTP status is the
\* upstream status, carries no run data, and issues neither a poll nor a
\* dataset fetch.
C28_RefusedSubmitPassedThrough ==
    SubmitRefused =>
        /\ pc = "done"
        /\ Len(responses) = 1
        /\ IsErrorEnvelope(TheResponse)
        /\ TheResponse.status = last[1].status
        /\ TheResponse.body.run = EmptyObject
        /\ TheResponse.body.results = None
        /\ Len(requests) = 1
        /\ Polls = {}
        /\ DatasetFetches = {}

C28_Witness ==
    /\ SubmitRefused
    /\ last[1].status = 401
    /\ Len(responses) = 1
    /\ TheResponse.status = 401


\* the handler is suspended at the await of a fetch
Awaiting == pc \in {"submit", "poll", "dataset"}

\* C29: within one executeActor invocation the upstream requests are
\* strictly sequential: the request awaited is the one issued last, no
\* poll is issued before the submit response arrived, every poll is
\* preceded by one 2 second sleep, and the dataset fetch is issued only
\* after the last poll has completed.
C29_StrictlySequential ==
    handler = "executeActor" =>
        /\ pc = "submit" => Len(requests) = 1 /\ IsSubmit(requests[1])
        /\ pc = "poll" => IsPoll(requests[Len(requests)])
        /\ pc = "dataset" => IsDatasetFetch(requests[Len(requests)])
        /\ Polls # {} =>
              /\ run # None
              /\ IsSubmit(requests[1])
              /\ Polls = 2..(Cardinality(Polls) + 1)
        /\ elapsed >= 2000 * Cardinality(Polls)
        /\ \A i \in DatasetFetches :
              /\ i = Len(requests)
              /\ ~(pc \in {"start", "submit", "sleep", "poll"})
              /\ \A j \in Polls : j < i

C29_Witness ==
    /\ ExecDone
    /\ Cardinality(Polls) = 2
    /\ elapsed = 2 * pollInterval
    /\ DatasetFetches = {4}
    /\ Len(responses) = 1
    /\ IsSuccessEnvelope(TheResponse)


----------------------------------------------------------------------------
(* Properties of interleaved invocations of executeActor *)

\* upstream created a run for invocation i
HasRun(i) == \E n \in 1..Len(created) : created[n] = i

\* the id of the run upstream created for invocation i
OwnRunId(i) == RunIdOf(CHOOSE n \in 1..Len(created) : created[n] = i)

\* C30: when several executeActor invocations run interleaved, each one
\* polls and fetches the dataset only for the run id its own submit
\* returned, and the Run and the results it returns are those of that run.
C30_InvocationsIndependent ==
    \A i \in DOMAIN callPc :
        /\ \A k \in 1..Len(callRequests[i]) :
              callRequests[i][k].method = "GET" =>
                 /\ HasRun(i)
                 /\ callRequests[i][k].url[4] = OwnRunId(i)
        /\ callResponses[i] # None /\ IsSuccessEnvelope(callResponses[i][1]) =>
              /\ HasRun(i)
              /\ callResponses[i][1].body.run[1].id = OwnRunId(i)
              /\ callResponses[i][1].body.results \in
                    {None, Some(DatasetOf(OwnRunId(i)))}

C30_Witness ==
    /\ DOMAIN callPc = Calls
    /\ created = <<2, 1>>
    /\ \A i \in Calls :
          /\ callPc[i] = "done"
          /\ Len(callRequests[i]) = 4
          /\ callResponses[i] # None
          /\ IsSuccessEnvelope(callResponses[i][1])
          /\ callResponses[i][1].body.results = Some(DatasetOf(OwnRunId(i)))
    /\ callResponses[1][1].body.run[1].id = "r2"
    /\ callResponses[2][1].body.run[1].id = "r1"


----------------------------------------------------------------------------
(* Further properties of executeActor *)

\* the tracked Run carries a terminal status
TerminalObserved ==
    /\ handler = "executeActor"
    /\ pc # "calls"
    /\ finalRun # None
    /\ finalRun[1].status \in TerminalStatuses

\* C31: within one executeActor invocation, once a terminal status has been
\* observed the tracked Run does not change any more, no further poll is
\* issued, and the Run returned is the one carrying that terminal status.
C31_TerminalIsFinal ==
    [][TerminalObserved =>
          /\ finalRun' = finalRun
          /\ Polls' = Polls
          /\ pc' # "sleep" /\ pc' # "poll"
          /\ pc' = "done" =>
                /\ Len(responses') = 1
                /\ IsSuccessEnvelope(responses'[1])
                /\ responses'[1].body.run = finalRun]_vars

C31_Witness ==
    /\ ExecDone
    /\ finalRun # None
    /\ finalRun[1].status = "SUCCEEDED"
    /\ Cardinality(Polls) = 2
    /\ DatasetFetches # {}
    /\ last[1].kind = "throw"
    /\ TheResponse.body.run = finalRun


----------------------------------------------------------------------------
(* Further properties of listActors *)

\* the for-loop of listActors is at a curated id
AtCuratedId ==
    /\ handler = "listActors"
    /\ pc = "popular"
    /\ popularIdx <= Len(popularActors)

\* the curated ids looked up so far, in order
LookedUp == [i \in 1..Len(lookups) |-> lookups[i].actorId]

\* ids are curated ids, each later in popularActors than the one before
IsIncreasing(ids) ==
    \A i, j \in 1..Len(ids) :
        i < j => \E m, n \in 1..Len(popularActors) :
                    m < n /\ popularActors[m] = ids[i] /\ popularActors[n] = ids[j]

\* C32: in listActors no lookup is issued for a curated id that is the id
\* of an actor already in the merged list, and that id adds no entry; a
\* lookup is issued for every curated id not yet present, one after the
\* other in curated-list order.
C32_CuratedSkipsPresent ==
    [][AtCuratedId =>
          LET actorId == popularActors[popularIdx]
          IN  /\ actorId \in IdsOf(allActors) =>
                    /\ requests' = requests
                    /\ allActors' = allActors
                    /\ lookups' = lookups
              /\ actorId \notin IdsOf(allActors) =>
                    /\ requests' = Append(requests, Get(ActorUrl(actorId)))
                    /\ Len(lookups') = Len(lookups) + 1
                    /\ lookups'[Len(lookups')].actorId = actorId
              /\ IsIncreasing(LookedUp')]_vars

C32_Witness ==
    /\ ListDone
    /\ Len(responses) = 1
    /\ myActorsResponse # None
    /\ Ok(myActorsResponse[1])
    /\ myActorsResponse[1].body # None
    /\ popularActors[1] \in IdsOf(myActorsResponse[1].body[1].items)
    /\ LookedUp = <<popularActors[2], popularActors[3]>>
    /\ Len(requests) = 4
    /\ Len(TheResponse.body.actors) = 3


----------------------------------------------------------------------------
(* Properties of listPublicActors *)

PublicDone == handler = "listPublicActors" /\ pc = "done"

\* the curated ids whose lookup answered with a success status and a
\* parsable body
Fetched ==
    {i \in DOMAIN actorPromises :
        /\ actorPromises[i] # None
        /\ actorPromises[i][1].kind = "resp"
        /\ Ok(actorPromises[i][1])
        /\ actorPromises[i][1].body # None}

\* C33: listPublicActors issues its curated lookups in parallel and returns
\* the successfully fetched actors in the order of the curated id list
\* whatever order the responses arrive in; a lookup that fails by
\* non-success status or by exception is dropped and never turns the call
\* into an error.
C33_PublicInCuratedOrder ==
    /\ handler = "listPublicActors" /\ pc = "awaitAll" =>
          /\ Len(requests) = Len(popularActorIds)
          /\ \A i \in 1..Len(requests) : requests[i] = Get(ActorUrl(popularActorIds[i]))
    /\ PublicDone /\ requests # <<>> =>
          /\ ~escaped
          /\ Len(responses) = 1
          /\ IsSuccessEnvelope(TheResponse)
          /\ \A i \in DOMAIN actorPromises : actorPromises[i] # None
          /\ Len(TheResponse.body.actors) = Cardinality(Fetched)
          /\ \A i \in Fetched :
                TheResponse.body.actors[Cardinality({j \in Fetched : j <= i})]
                    = actorPromises[i][1].body[1].data

C33_Witness ==
    /\ PublicDone
    /\ overtaken
    /\ actorPromises[1][1].kind = "throw"
    /\ actorPromises[3][1].status = 401
    /\ actorPromises[4][1] = Resp(200, None)
    /\ Fetched = {2, 5, 6}
    /\ Len(responses) = 1
    /\ Len(TheResponse.body.actors) = 3
    /\ TheResponse.body.actors[1].id = popularActorIds[2]
    /\ TheResponse.body.actors[3].id = popularActorIds[6]


----------------------------------------------------------------------------
(* Termination of executeActor *)

\* C34: if every upstream request eventually returns and each sleep
\* advances the clock by the 2 second poll interval at least, every
\* executeActor invocation eventually sends its response, after at most 30
\* poll requests, even when upstream reports RUNNING forever.
C34_RespondsWithinThirtyPolls ==
    /\ <>(ExecDone /\ Len(responses) = 1)
    /\ [](Cardinality(Polls) <= 30)

C34_Witness ==
    /\ ExecDone
    /\ Len(responses) = 1
    /\ Cardinality(Polls) = 30
    /\ elapsed = maxWaitTime
    /\ finalRun[1].status = "RUNNING"


----------------------------------------------------------------------------
(* Further properties of getActorSchema *)

\* C35: once a probe of the schema cascade has yielded a schema,
\* getActorSchema issues no further upstream request; in particular, when
\* the embedded version schema exists, the actor detail fetch is the only
\* upstream request of the call.
C35_NoRequestAfterYield ==
    [][handler = "getActorSchema" =>
          /\ schema' # None => requests' = requests
          /\ (/\ actorData' # None
              /\ Len(actorData'[1].versions) > 0
              /\ actorData'[1].versions[1].inputSchema # None)
             => requests' = <<Get(ActorUrl(request.actorId))>>]_vars

C35_Witness ==
    /\ SchemaSucceeded
    /\ DetailFetched
    /\ actorData[1].taggedLatest # None
    /\ Len(actorData[1].versions) > 0
    /\ actorData[1].versions[1].inputSchema # None
    /\ Len(probes) = 1
    /\ requests = <<Get(ActorUrl(request.actorId))>>


----------------------------------------------------------------------------
(* The results field of executeActor *)

\* the dataset fetch has settled with a success response whose body parsed
\* to an empty array
DatasetEmpty ==
    /\ ExecDone
    /\ requests # <<>>
    /\ IsDatasetFetch(requests[Len(requests)])
    /\ last # None
    /\ ~FetchFailed(last[1])
    /\ last[1].body[1].items = <<>>

\* C36: in every executeActor response the results field is either absent
\* or a non-empty sequence; a SUCCEEDED run whose dataset is empty is
\* returned with results absent, the very response a failed dataset fetch
\* gives.
C36_ResultsAbsentOrNonEmpty ==
    /\ handler = "executeActor" /\ pc # "calls" =>
          \A i \in 1..Len(responses) :
             \/ responses[i].body.results = None
             \/ Len(responses[i].body.results[1]) > 0
    /\ DatasetEmpty \/ DatasetFetchFailed =>
          /\ Len(responses) = 1
          /\ TheResponse =
                [status |-> 200,
                 body |-> [run |-> finalRun, results |-> None, error |-> None]]

C36_Witness ==
    /\ DatasetEmpty
    /\ finalRun[1].status = "SUCCEEDED"
    /\ Len(responses) = 1
    /\ TheResponse.status = 200
    /\ TheResponse.body.results = None


----------------------------------------------------------------------------
(* Properties of the Index page *)

\* the execution view is shown
ExecutionView == handler = "Index" /\ appState = "execution" /\ selectedActor # None

\* C37: whenever a non-null schema is held in actorSchema it is the schema
\* of the currently selected actor, for every interleaving of actor
\* selections and schema responses.
C37_SchemaOfSelectedActor ==
    handler = "Index" /\ actorSchema # None /\ actorSchema # Some(NoSchemaObject) =>
        /\ selectedActor # None
        /\ actorSchema = Some(SchemaOf(selectedActor[1]))

\* C38: whenever an execution result is displayed it is the result of a
\* run of the currently selected actor, for every interleaving of execute
\* requests, their responses, going back and selecting another actor.
C38_ResultOfSelectedActor ==
    ExecutionView /\ executionResult # None =>
        executionResult[1].actId = selectedActor[1]

\* C39: every execute action that was started eventually resets
\* isExecuting to false once its request completes, whether the response is
\* a success envelope, an error envelope or the request throws: the flag is
\* set exactly while the request is in flight.
C39_IsExecutingReset ==
    /\ [](handler = "Index" => (isExecuting <=> executeFetch # None))
    /\ (isExecuting ~> ~isExecuting)

C39_Witness ==
    /\ handler = "Index"
    /\ last # None
    /\ last[1].kind = "throw"
    /\ ~isExecuting
    /\ executeFetch = None
    /\ executionResult = None

=============================================================================
